---- MODULE Spec2Model ----
(***************************************************************************)
(* Model of the cclastrib-agent classification service: the reference      *)
(* tables (rules.DataSources), the lookups and the rule matcher of         *)
(* app/rules.py, the request cache of app/cache.py and the agent of        *)
(* app/agent.py that serves requests and reloads the tables.               *)
(*                                                                         *)
(* Text is modelled as a sequence of one-character strings, so that        *)
(* trimming, upper-casing, digit filtering, slicing and joining are        *)
(* computed the way the Python code computes them.  A Python None in a     *)
(* text position is the one-element sequence NoneS, which is no text.      *)
(* Dates are the integers yyyymmdd, which order as datetime.date orders.   *)
(* Rates are integers in units of 1/RateScale.                             *)
(***************************************************************************)
EXTENDS Integers, Sequences, FiniteSets, TLC

VARIABLES
    sources,    \* the snapshot in service: CClastribAgent._sources / the `sources` argument
    req,        \* the arguments of the call under study
    out,        \* what the call returned
    files,      \* the data directory the tables are loaded from
    cache,      \* CClastribAgent._cache._data: key -> CacheEntry
    now,        \* time.time(), in units of the cache's time-to-live
    thr,        \* the handle() call each worker thread is in
    rl,         \* the reload_sources() call of the /reload endpoint
    heap        \* the DataSources objects constructed so far

agentVars == <<files, cache, now, thr, rl, heap>>

vars == <<sources, req, out, files, cache, now, thr, rl, heap>>

\* the agent's own state while a single rules.py call is studied on its own
NoAgent ==
    /\ files = <<>>
    /\ cache = <<>>
    /\ now = 0
    /\ thr = <<>>
    /\ rl = <<>>
    /\ heap = <<>>

(***************************************************************************)
(* Text                                                                    *)
(***************************************************************************)
NoneS == <<"None">>

DigitChars == <<"0", "1", "2", "3", "4", "5", "6", "7", "8", "9">>

LowerChars == <<"a", "b", "c", "d", "e", "f", "g", "h", "i", "j", "k", "l", "m",
                "n", "o", "p", "q", "r", "s", "t", "u", "v", "w", "x", "y", "z">>

UpperChars == <<"A", "B", "C", "D", "E", "F", "G", "H", "I", "J", "K", "L", "M",
                "N", "O", "P", "Q", "R", "S", "T", "U", "V", "W", "X", "Y", "Z">>

Range(s) == {s[i] : i \in DOMAIN s}

DigitSet == Range(DigitChars)

LowerSet == Range(LowerChars)

UpperSet == Range(UpperChars)

IsDigit(c) == c \in DigitSet

IsSpace(c) == c \in {" ", "\t", "\n", "\r"}

DigitValue == [c \in DigitSet |-> (CHOOSE i \in DOMAIN DigitChars : DigitChars[i] = c) - 1]

DigitVal(c) == DigitValue[c]

\* Python truthiness of an Optional[str]
Truthy(s) == s # NoneS /\ s # <<>>

\* (s or "")
OrEmpty(s) == IF Truthy(s) THEN s ELSE <<>>

\* a or b
Or2(a, b) == IF Truthy(a) THEN a ELSE b

\* Python's `s or None`
OrNone(s) == IF Truthy(s) THEN s ELSE NoneS

\* dict.get(k): None when the row has no such column
Get(r, k) == IF k \in DOMAIN r THEN r[k] ELSE NoneS

\* dict.get(k, "")
GetOr(r, k) == IF k \in DOMAIN r THEN r[k] ELSE <<>>

\* str.upper() and str.lower(), letter by letter
ToUpper == [c \in LowerSet |-> UpperChars[CHOOSE i \in DOMAIN LowerChars : LowerChars[i] = c]]

ToLower == [c \in UpperSet |-> LowerChars[CHOOSE i \in DOMAIN UpperChars : UpperChars[i] = c]]

UpperChar(c) == IF c \in LowerSet THEN ToUpper[c] ELSE c

Upper(s) == [i \in DOMAIN s |-> UpperChar(s[i])]

RECURSIVE LStrip(_)
LStrip(s) == IF s # <<>> /\ IsSpace(Head(s)) THEN LStrip(Tail(s)) ELSE s

RECURSIVE RStrip(_)
RStrip(s) ==
    IF s # <<>> /\ IsSpace(s[Len(s)]) THEN RStrip(SubSeq(s, 1, Len(s) - 1)) ELSE s

Strip(s) == RStrip(LStrip(s))

\* s[:n]
Take(s, n) == SubSeq(s, 1, IF Len(s) < n THEN Len(s) ELSE n)

NcmPrefixLen == 8

norm_ncm(ncm) == SelectSeq(OrEmpty(ncm), IsDigit)

norm_code(code) == Upper(Strip(OrEmpty(code)))

\* texts of the tables and requests
txt_SN    == <<"S", "N">>
txt_sn_sp == <<" ", "s", "n", " ">>
txt_RPA   == <<"R", "P", "A">>
txt_5101  == <<"5", "1", "0", "1">>
txt_6101  == <<"6", "1", "0", "1">>
txt_6102  == <<"6", "1", "0", "2">>
txt_SP    == <<"S", "P">>
txt_sp    == <<"s", "p">>
txt_RJ    == <<"R", "J">>
txt_AM    == <<"A", "M">>
txt_00    == <<"0", "0">>
txt_20    == <<"2", "0">>
cod_000001 == <<"0", "0", "0", "0", "0", "1">>
cod_010001 == <<"0", "1", "0", "0", "0", "1">>
cod_010002 == <<"0", "1", "0", "0", "0", "2">>
cod_010003 == <<"0", "1", "0", "0", "0", "3">>
cod_020001 == <<"0", "2", "0", "0", "0", "1">>
cod_020002 == <<"0", "2", "0", "0", "0", "2">>
cod_020003 == <<"0", "2", "0", "0", "0", "3">>

(***************************************************************************)
(* Dates: date.fromisoformat on "YYYY-MM-DD" text                          *)
(***************************************************************************)
RECURSIVE DigitsToInt(_)
DigitsToInt(s) ==
    IF s = <<>> THEN 0
    ELSE 10 * DigitsToInt(SubSeq(s, 1, Len(s) - 1)) + DigitVal(s[Len(s)])

fromisoformat(t) ==
    DigitsToInt(SubSeq(t, 1, 4)) * 10000
    + DigitsToInt(SubSeq(t, 6, 7)) * 100
    + DigitsToInt(SubSeq(t, 9, 10))

(***************************************************************************)
(* Product-category lookups.  A lookup returns the position of the row it  *)
(* found in its table, 0 for None.                                         *)
(***************************************************************************)
dentro_da_vigencia(data, inicio, fim) ==
    IF ~Truthy(inicio) THEN TRUE
    ELSE IF data < fromisoformat(inicio) THEN FALSE
    ELSE IF Truthy(fim) /\ data > fromisoformat(fim) THEN FALSE
    ELSE TRUE

\* a lookup that compares whole codes instead of their first 8 digits
MasterRowOk_FullCode(r, ncm_digits, data_emissao) ==
    LET raw     == GetOr(r, "ncm")
        vig_ini == Get(r, "vigencia_inicio")
        vig_fim == Get(r, "vigencia_fim")
    IN  /\ Truthy(raw)
        /\ norm_ncm(raw) = ncm_digits
        /\ ~(Truthy(vig_ini) /\ data_emissao < fromisoformat(vig_ini))
        /\ ~(Truthy(vig_fim) /\ data_emissao > fromisoformat(vig_fim))

MasterRowOk(r, ncm_digits, data_emissao) ==
    LET raw     == GetOr(r, "ncm")
        vig_ini == Get(r, "vigencia_inicio")
        vig_fim == Get(r, "vigencia_fim")
    IN  /\ Truthy(raw)
        /\ Take(norm_ncm(raw), NcmPrefixLen) = Take(ncm_digits, NcmPrefixLen)
        /\ ~(Truthy(vig_ini) /\ data_emissao < fromisoformat(vig_ini))
        /\ ~(Truthy(vig_fim) /\ data_emissao > fromisoformat(vig_fim))

ExcecaoRowOk(r, ncm_digits, data_emissao) ==
    LET raw == GetOr(r, "ncm")
    IN  /\ Truthy(raw)
        /\ Take(norm_ncm(raw), NcmPrefixLen) = Take(ncm_digits, NcmPrefixLen)
        /\ dentro_da_vigencia(data_emissao, Get(r, "vigencia_inicio"),
                              Get(r, "vigencia_fim"))

RECURSIVE MasterScan(_, _, _, _)
MasterScan(rows, i, ncm_digits, data_emissao) ==
    IF i > Len(rows) THEN 0
    ELSE IF MasterRowOk(rows[i], ncm_digits, data_emissao) THEN i
    ELSE MasterScan(rows, i + 1, ncm_digits, data_emissao)

find_in_master(src, ncm_digits, data_emissao) ==
    MasterScan(src.ncm_master, 1, ncm_digits, data_emissao)

RECURSIVE ExcecaoScan(_, _, _, _)
ExcecaoScan(rows, i, ncm_digits, data_emissao) ==
    IF i > Len(rows) THEN 0
    ELSE IF ExcecaoRowOk(rows[i], ncm_digits, data_emissao) THEN i
    ELSE ExcecaoScan(rows, i + 1, ncm_digits, data_emissao)

find_excecao(src, ncm_digits, data_emissao) ==
    ExcecaoScan(src.ncm_excecoes, 1, ncm_digits, data_emissao)

\* row = find_excecao(...) or find_in_master(...): the table and position of the row
NoRow == [tbl |-> "none", idx |-> 0]

ResolveRow(src, ncm_digits, data_emissao) ==
    LET e == find_excecao(src, ncm_digits, data_emissao)
        m == find_in_master(src, ncm_digits, data_emissao)
    IN  IF e # 0 THEN [tbl |-> "ncm_excecoes", idx |-> e]
        ELSE IF m # 0 THEN [tbl |-> "ncm_master", idx |-> m]
        ELSE NoRow

(***************************************************************************)
(* pick_cclastrib: the rule matcher.  Candidates are positions of rows of  *)
(* sources.cclastrib, in the order of the list the code returns.           *)
(***************************************************************************)
txt_STAR == <<"*">>
txt_BANG == <<"!">>

\* ("S", "SIM", "1", "TRUE", "T", "Y")
ZfmYes ==
    {<<"S">>, <<"S", "I", "M">>, <<"1">>, <<"T", "R", "U", "E">>, <<"T">>, <<"Y">>}

txt_REGRA_GERAL == <<"R", "E", "G", "R", "A", "-", "G", "E", "R", "A", "L">>
txt_Regra_geral == <<"R", "e", "g", "r", "a", " ", "g", "e", "r", "a", "l">>
txt_Regra_geral_sem_match ==
    <<"R", "e", "g", "r", "a", " ", "g", "e", "r", "a", "l", " ", "(", "s", "e", "m", " ", "m", "a", "t", "c", "h", " ", "e", "m", " ",
     "c", "c", "l", "a", "s", "t", "r", "i", "b", ".", "c", "s", "v", ")">>

ZfmBonus == 10

aplica_zfm_flag(r) ==
    norm_code(Or2(Get(r, "aplica_zfm"), Or2(Get(r, "apply_zfm"), <<>>))) \in ZfmYes

\* a matcher that forgets to leave zone-flagged rules out of other contexts
RuleOk_ZfmAnyContext(r, regime, cfop, uf_e, uf_d, cst_icms, zfm_context) ==
    LET r_reg  == norm_code(Or2(Get(r, "regime_emitente"),
                            Or2(Get(r, "regime"), Or2(Get(r, "regime_fiscal"), <<>>))))
        r_cfop == norm_code(Or2(Get(r, "cfop"), <<>>))
        r_ufe  == norm_code(Or2(Get(r, "uf_origem"), Or2(Get(r, "uf_emitente"), <<>>)))
        r_ufd  == norm_code(Or2(Get(r, "uf_destino"), Or2(Get(r, "uf_destinatario"), <<>>)))
        r_cst  == norm_code(Or2(Get(r, "cst_icms"), <<>>))
    IN  /\ ~(r_reg # <<>> /\ r_reg # txt_STAR /\ r_reg # regime)
        /\ ~(r_cfop # <<>> /\ r_cfop # txt_STAR /\ r_cfop # cfop)
        /\ ~(r_ufe # <<>> /\ r_ufe # txt_STAR /\ r_ufe # uf_e)
        /\ (r_ufd # <<>> =>
               IF r_ufd = txt_BANG THEN uf_d # uf_e
               ELSE ~(r_ufd # txt_STAR /\ r_ufd # uf_d))
        /\ ~(r_cst # <<>> /\ r_cst # txt_STAR /\ r_cst # cst_icms)

RuleOk(r, regime, cfop, uf_e, uf_d, cst_icms, zfm_context) ==
    LET r_reg  == norm_code(Or2(Get(r, "regime_emitente"),
                            Or2(Get(r, "regime"), Or2(Get(r, "regime_fiscal"), <<>>))))
        r_cfop == norm_code(Or2(Get(r, "cfop"), <<>>))
        r_ufe  == norm_code(Or2(Get(r, "uf_origem"), Or2(Get(r, "uf_emitente"), <<>>)))
        r_ufd  == norm_code(Or2(Get(r, "uf_destino"), Or2(Get(r, "uf_destinatario"), <<>>)))
        r_cst  == norm_code(Or2(Get(r, "cst_icms"), <<>>))
    IN  /\ ~(aplica_zfm_flag(r) /\ ~zfm_context)
        /\ ~(r_reg # <<>> /\ r_reg # txt_STAR /\ r_reg # regime)
        /\ ~(r_cfop # <<>> /\ r_cfop # txt_STAR /\ r_cfop # cfop)
        /\ ~(r_ufe # <<>> /\ r_ufe # txt_STAR /\ r_ufe # uf_e)
        /\ (r_ufd # <<>> =>
               IF r_ufd = txt_BANG THEN uf_d # uf_e
               ELSE ~(r_ufd # txt_STAR /\ r_ufd # uf_d))
        /\ ~(r_cst # <<>> /\ r_cst # txt_STAR /\ r_cst # cst_icms)

ScoreKeys ==
    <<"regime_emitente", "regime", "regime_fiscal", "cfop", "uf_origem",
      "uf_emitente", "uf_destino", "uf_destinatario", "cst_icms">>

\* a score that leaves the zone-benefit bonus out
score_NoBonus(r, zfm_context) ==
    Cardinality({i \in DOMAIN ScoreKeys :
                    /\ Strip(OrEmpty(Get(r, ScoreKeys[i]))) # <<>>
                    /\ Strip(OrEmpty(Get(r, ScoreKeys[i]))) # txt_STAR})

\* a score whose zone-benefit bonus is smaller than a full row of filled columns
score_SmallBonus(r, zfm_context) ==
    score_NoBonus(r, zfm_context) + (IF zfm_context /\ aplica_zfm_flag(r) THEN 5 ELSE 0)

score(r, zfm_context) ==
    LET filled == {i \in DOMAIN ScoreKeys :
                      /\ Strip(OrEmpty(Get(r, ScoreKeys[i]))) # <<>>
                      /\ Strip(OrEmpty(Get(r, ScoreKeys[i]))) # txt_STAR}
    IN  Cardinality(filled) + (IF zfm_context /\ aplica_zfm_flag(r) THEN ZfmBonus ELSE 0)

\* candidatos, before the sort: the rows that pass, in table order
RECURSIVE Candidatos(_, _, _, _, _, _, _, _)
Candidatos(rows, i, regime, cfop, uf_e, uf_d, cst_icms, zfm_context) ==
    IF i > Len(rows) THEN <<>>
    ELSE (IF RuleOk(rows[i], regime, cfop, uf_e, uf_d, cst_icms, zfm_context)
          THEN <<i>> ELSE <<>>)
         \o Candidatos(rows, i + 1, regime, cfop, uf_e, uf_d, cst_icms, zfm_context)

\* list.sort(key=score, reverse=True): stable, equal keys keep their order
\* a descending sort that puts a row ahead of the earlier rows of equal score
RECURSIVE InsertDesc_Unstable(_, _, _, _)
InsertDesc_Unstable(sorted, x, rows, zfm_context) ==
    IF sorted = <<>> THEN <<x>>
    ELSE IF score(rows[Head(sorted)], zfm_context) > score(rows[x], zfm_context)
         THEN <<Head(sorted)>> \o InsertDesc_Unstable(Tail(sorted), x, rows, zfm_context)
         ELSE <<x>> \o sorted

RECURSIVE InsertDesc(_, _, _, _)
InsertDesc(sorted, x, rows, zfm_context) ==
    IF sorted = <<>> THEN <<x>>
    ELSE IF score(rows[Head(sorted)], zfm_context) >= score(rows[x], zfm_context)
         THEN <<Head(sorted)>> \o InsertDesc(Tail(sorted), x, rows, zfm_context)
         ELSE <<x>> \o sorted

RECURSIVE SortDesc(_, _, _)
SortDesc(cands, rows, zfm_context) ==
    IF cands = <<>> THEN <<>>
    ELSE InsertDesc(SortDesc(SubSeq(cands, 1, Len(cands) - 1), rows, zfm_context),
                    cands[Len(cands)], rows, zfm_context)

\* a matcher that answers with the first rule of the table when none matches
pick_cclastrib_FirstRowFallback(src, regime0, cfop0, uf_e0, uf_d0, cst_icms0, zfm_context) ==
    LET candidatos == SortDesc(Candidatos(src.cclastrib, 1, norm_code(regime0),
                                          norm_code(cfop0), norm_code(uf_e0),
                                          norm_code(uf_d0), norm_code(cst_icms0),
                                          zfm_context),
                               src.cclastrib, zfm_context)
        top == src.cclastrib[IF candidatos # <<>> THEN candidatos[1] ELSE 1]
    IN  IF src.cclastrib # <<>>
        THEN [codigo     |-> Or2(Get(top, "codigo"), Or2(Get(top, "CODIGO"), txt_REGRA_GERAL)),
              descricao  |-> Or2(Get(top, "descricao"), Or2(Get(top, "DESCRICAO"), txt_Regra_geral)),
              candidatos |-> candidatos]
        ELSE [codigo |-> txt_REGRA_GERAL, descricao |-> txt_Regra_geral_sem_match,
              candidatos |-> <<>>]

pick_cclastrib(src, regime0, cfop0, uf_e0, uf_d0, cst_icms0, zfm_context) ==
    LET regime     == norm_code(regime0)
        cfop       == norm_code(cfop0)
        uf_e       == norm_code(uf_e0)
        uf_d       == norm_code(uf_d0)
        cst_icms   == norm_code(cst_icms0)
        candidatos == SortDesc(Candidatos(src.cclastrib, 1, regime, cfop, uf_e, uf_d,
                                          cst_icms, zfm_context),
                               src.cclastrib, zfm_context)
    IN  IF candidatos # <<>>
        THEN LET top == src.cclastrib[candidatos[1]]
             IN  [codigo     |-> Or2(Get(top, "codigo"), Or2(Get(top, "CODIGO"), txt_REGRA_GERAL)),
                  descricao  |-> Or2(Get(top, "descricao"), Or2(Get(top, "DESCRICAO"), txt_Regra_geral)),
                  candidatos |-> candidatos]
        ELSE [codigo |-> txt_REGRA_GERAL, descricao |-> txt_Regra_geral_sem_match,
              candidatos |-> <<>>]

(***************************************************************************)
(* Operation-type (CFOP) descriptors                                       *)
(*                                                                         *)
(* An accented letter is written as an ASCII token, "[c,]" for c-cedilla,  *)
(* "[a~]" for a-tilde and so on (upper-case: "[C,]", "[A~]"); NFKD splits  *)
(* it into its base letter and the combining mark "[comb]".                *)
(***************************************************************************)
NoneRow == [none |-> <<>>]

\* truthiness of an Optional[Dict]: None and {} are false
IsRow(r) == r # NoneRow /\ DOMAIN r # {}

Accented == {"[c,]", "[a~]", "[o~]", "[a']", "[e']", "[i']", "[o']", "[C,]", "[A~]"}

AccentBase(c) ==
    CASE c = "[c,]" -> "c" [] c = "[a~]" -> "a" [] c = "[o~]" -> "o"
      [] c = "[a']" -> "a" [] c = "[e']" -> "e" [] c = "[i']" -> "i"
      [] c = "[o']" -> "o" [] c = "[C,]" -> "C"
      [] c = "[A~]" -> "A" [] OTHER -> c

LowerChar(c) == IF c \in UpperSet THEN ToLower[c] ELSE c

\* unicodedata.normalize("NFKD", value or "").lower()
RECURSIVE Nfkd(_)
Nfkd(s) ==
    IF s = <<>> THEN <<>>
    ELSE (IF Head(s) \in Accented THEN <<AccentBase(Head(s)), "[comb]">> ELSE <<Head(s)>>)
         \o Nfkd(Tail(s))

IsCombining(c) == c = "[comb]"

NotCombining(c) == ~IsCombining(c)

normalize_text(value) ==
    LET txt == Nfkd(OrEmpty(value))
    IN  SelectSeq([i \in DOMAIN txt |-> LowerChar(txt[i])], NotCombining)

\* k in s
Contains(s, k) ==
    \E i \in 1..(Len(s) - Len(k) + 1) : SubSeq(s, i, i + Len(k) - 1) = k

KeywordsProducao ==
    {<<"p", "r", "o", "d", "u", "c", "a", "o", " ", "d", "o", " ", "e", "s",
      "t", "a", "b", "e", "l", "e", "c", "i", "m", "e", "n", "t", "o">>,
     <<"p", "r", "o", "d", "u", "c", "a", "o", " ", "p", "r", "o", "p", "r",
      "i", "a">>,
     <<"p", "r", "o", "d", "u", "t", "o", " ", "d", "e", " ", "f", "a", "b",
      "r", "i", "c", "a", "c", "a", "o", " ", "d", "o", " ", "e", "s", "t",
      "a", "b", "e", "l", "e", "c", "i", "m", "e", "n", "t", "o">>,
     <<"i", "n", "d", "u", "s", "t", "r", "i", "a", "l", "i", "z", "a", "d",
      "o", " ", "p", "e", "l", "o", " ", "p", "r", "o", "p", "r", "i", "o",
      " ", "e", "s", "t", "a", "b", "e", "l", "e", "c", "i", "m", "e", "n",
      "t", "o">>,
     <<"v", "e", "n", "d", "a", " ", "d", "e", " ", "p", "r", "o", "d", "u",
      "c", "a", "o", " ", "d", "o", " ", "e", "s", "t", "a", "b", "e", "l",
      "e", "c", "i", "m", "e", "n", "t", "o">>,
     <<"r", "e", "m", "e", "s", "s", "a", " ", "d", "e", " ", "p", "r", "o",
      "d", "u", "c", "a", "o", " ", "d", "o", " ", "e", "s", "t", "a", "b",
      "e", "l", "e", "c", "i", "m", "e", "n", "t", "o">>,
     <<"d", "e", "v", "o", "l", "u", "c", "a", "o", " ", "d", "e", " ", "p",
      "r", "o", "d", "u", "c", "a", "o", " ", "d", "o", " ", "e", "s", "t",
      "a", "b", "e", "l", "e", "c", "i", "m", "e", "n", "t", "o">>,
     <<"r", "e", "t", "o", "r", "n", "o", " ", "d", "e", " ", "m", "e", "r",
      "c", "a", "d", "o", "r", "i", "a", " ", "d", "e", " ", "p", "r", "o",
      "d", "u", "c", "a", "o", " ", "d", "o", " ", "e", "s", "t", "a", "b",
      "e", "l", "e", "c", "i", "m", "e", "n", "t", "o">>}

KeywordsIndustrializada ==
    {<<"v", "e", "n", "d", "a", " ", "d", "e", " ", "p", "r", "o", "d", "u",
      "c", "a", "o", " ", "d", "o", " ", "e", "s", "t", "a", "b", "e", "l",
      "e", "c", "i", "m", "e", "n", "t", "o">>,
     <<"v", "e", "n", "d", "a", " ", "d", "e", " ", "p", "r", "o", "d", "u",
      "t", "o", " ", "i", "n", "d", "u", "s", "t", "r", "i", "a", "l", "i",
      "z", "a", "d", "o">>,
     <<"p", "r", "o", "d", "u", "t", "o", " ", "i", "n", "d", "u", "s", "t",
      "r", "i", "a", "l", "i", "z", "a", "d", "o">>,
     <<"i", "n", "d", "u", "s", "t", "r", "i", "a", "l", "i", "z", "a", "c",
      "a", "o", " ", "p", "r", "o", "p", "r", "i", "a">>,
     <<"p", "r", "o", "d", "u", "c", "a", "o", " ", "d", "o", " ", "e", "s",
      "t", "a", "b", "e", "l", "e", "c", "i", "m", "e", "n", "t", "o">>}

RECURSIVE CfopIndexFrom(_, _)
CfopIndexFrom(rows, i) ==
    IF i = 0 THEN <<>>
    ELSE LET prev == CfopIndexFrom(rows, i - 1)
             code == norm_code(Or2(Get(rows[i], "CFOP"), Or2(Get(rows[i], "cfop"), <<>>)))
         IN  IF code # <<>>
             THEN [c \in DOMAIN prev \cup {code} |-> IF c = code THEN rows[i] ELSE prev[c]]
             ELSE prev

build_cfop_index(rows) == CfopIndexFrom(rows, Len(rows))

\* sources.cfop_map.get(code)
CfopGet(map, code) == IF code \in DOMAIN map THEN map[code] ELSE NoneRow

CfopDesc(cfop_row) ==
    Or2(Get(cfop_row, "DESCRICAO_CFOP"),
        Or2(Get(cfop_row, "DESCRI[C,][A~]O_CFOP"),
            Or2(Get(cfop_row, "descricao_cfop"), <<>>)))

\* the three results of the detectors: "True", "False", "None"
detect_producao_emitente(cfop_code, cfop_row) ==
    IF ~IsRow(cfop_row) THEN "None"
    ELSE IF norm_code(cfop_code) = <<>> THEN "None"
    ELSE IF norm_code(cfop_code)[1] \notin {"5", "6", "7"} THEN "False"
    ELSE LET desc_norm == normalize_text(CfopDesc(cfop_row))
         IN  IF \E k \in KeywordsProducao : Contains(desc_norm, k)
             THEN "True" ELSE "False"

\* a detector that answers unknown when a known code has no keyword
detect_venda_industrializada_UnknownNoKeyword(cfop_code, cfop_row) ==
    IF ~IsRow(cfop_row) THEN "None"
    ELSE IF norm_code(cfop_code) = <<>> \/ norm_code(cfop_code)[1] \notin {"5", "6", "7"}
         THEN "False"
    ELSE IF \E k \in KeywordsIndustrializada :
                Contains(normalize_text(CfopDesc(cfop_row)), k)
         THEN "True" ELSE "None"

detect_venda_industrializada(cfop_code, cfop_row) ==
    IF ~IsRow(cfop_row) THEN "None"
    ELSE IF norm_code(cfop_code) = <<>> \/ norm_code(cfop_code)[1] \notin {"5", "6", "7"}
         THEN "False"
    ELSE LET desc_norm == normalize_text(CfopDesc(cfop_row))
         IN  IF \E k \in KeywordsIndustrializada : Contains(desc_norm, k)
             THEN "True" ELSE "False"

(***************************************************************************)
(* Zone-benefit list and official catalogue                                *)
(***************************************************************************)
is_ncm_beneficiado_zfm(src, ncm_digits) ==
    \E i \in DOMAIN src.ncm_beneficiados_zfm :
        Take(norm_ncm(Or2(Get(src.ncm_beneficiados_zfm[i], "ncm"),
                          Or2(Get(src.ncm_beneficiados_zfm[i], "NCM"), <<>>))),
             NcmPrefixLen)
        = Take(ncm_digits, NcmPrefixLen)

\* pick(r, keys): the value under the first of the keys the row has
PickKey(r, keys) ==
    LET has == {i \in DOMAIN keys : keys[i] \in DOMAIN r}
    IN  IF has = {} THEN NoneS ELSE r[keys[CHOOSE i \in has : \A j \in has : i <= j]]

AllDigits(s) == s # <<>> /\ \A i \in DOMAIN s : IsDigit(s[i])

\* positions of the "/" of a text
Slashes(s) == {i \in DOMAIN s : s[i] = "/"}

DaysInMonth(y, m) ==
    IF m \in {4, 6, 9, 11} THEN 30
    ELSE IF m = 2 THEN (IF (y % 4 = 0 /\ y % 100 # 0) \/ y % 400 = 0 THEN 29 ELSE 28)
    ELSE 31

\* parse_date_br: datetime.strptime(s, "%d/%m/%Y").date(), None (0) when it fails
parse_date_br(value) ==
    LET s  == Strip(OrEmpty(value))
        sl == Slashes(s)
    IN  IF ~Truthy(value) \/ s = <<>> \/ Cardinality(sl) # 2 THEN 0
        ELSE LET a  == CHOOSE i \in sl : \A j \in sl : i <= j
                 b  == CHOOSE i \in sl : \A j \in sl : i >= j
                 dd == SubSeq(s, 1, a - 1)
                 mm == SubSeq(s, a + 1, b - 1)
                 yy == SubSeq(s, b + 1, Len(s))
             IN  IF /\ AllDigits(dd) /\ Len(dd) <= 2
                    /\ AllDigits(mm) /\ Len(mm) <= 2
                    /\ AllDigits(yy) /\ Len(yy) = 4
                    /\ DigitsToInt(mm) \in 1..12
                    /\ DigitsToInt(yy) >= 1
                    /\ DigitsToInt(dd) \in 1..DaysInMonth(DigitsToInt(yy), DigitsToInt(mm))
                 THEN DigitsToInt(yy) * 10000 + DigitsToInt(mm) * 100 + DigitsToInt(dd)
                 ELSE 0

OficialCodeKeys ==
    <<"C[o']digo", "Codigo", "C[O']DIGO", "CODIGO", "C[o']d.", "C[cent]digo">>

OficialIniKeys ==
    <<"Data In[i']cio", "Data Inicio", "Data In[!]cio", "Data Inicio ", "DATA INICIO",
      "Data In[i']cio ">>

OficialFimKeys == <<"Data Fim", "DATA FIM", "Data Fim ">>

OficialRowOk(r, ncm_digits, data_emissao) ==
    LET raw == PickKey(r, OficialCodeKeys)
        ini == parse_date_br(PickKey(r, OficialIniKeys))
        fim == parse_date_br(PickKey(r, OficialFimKeys))
    IN  /\ Truthy(raw)
        /\ Take(norm_ncm(raw), NcmPrefixLen) = Take(ncm_digits, NcmPrefixLen)
        /\ ~(ini # 0 /\ data_emissao < ini)
        /\ ~(fim # 0 /\ data_emissao > fim)

RECURSIVE OficialScan(_, _, _, _)
OficialScan(rows, i, ncm_digits, data_emissao) ==
    IF i > Len(rows) THEN 0
    ELSE IF OficialRowOk(rows[i], ncm_digits, data_emissao) THEN i
    ELSE OficialScan(rows, i + 1, ncm_digits, data_emissao)

find_in_oficial(src, ncm_digits, data_emissao) ==
    OficialScan(src.ncm_oficial, 1, ncm_digits, data_emissao)

(***************************************************************************)
(* Numbers and the transition schedules.  A float is [ok, v]: ok is FALSE  *)
(* for None, v counts units of 1/RateScale (finer digits are dropped).     *)
(***************************************************************************)
RateScale == 10000

RateDigits == 4

NoneNum == [ok |-> FALSE, v |-> 0]

Num(n) == [ok |-> TRUE, v |-> n]

NotPercent(c) == c # "%"

NotDot(c) == c # "."

CommaToDot(s) == [i \in DOMAIN s |-> IF s[i] = "," THEN "." ELSE s[i]]

RECURSIVE PadRight(_, _)
PadRight(s, n) == IF Len(s) >= n THEN SubSeq(s, 1, n) ELSE PadRight(s \o <<"0">>, n)

\* float(s) for a decimal numeral: [sign] digits [. digits], None otherwise
ParseDecimal(s0) ==
    LET neg  == s0 # <<>> /\ Head(s0) = "-"
        s    == IF s0 # <<>> /\ Head(s0) \in {"-", "+"} THEN Tail(s0) ELSE s0
        dots == {i \in DOMAIN s : s[i] = "."}
        dot  == IF dots = {} THEN Len(s) + 1 ELSE CHOOSE i \in dots : TRUE
        int  == SubSeq(s, 1, dot - 1)
        frac == SubSeq(s, dot + 1, Len(s))
    IN  IF /\ Cardinality(dots) <= 1
           /\ \A i \in DOMAIN int : IsDigit(int[i])
           /\ \A i \in DOMAIN frac : IsDigit(frac[i])
           /\ Len(int) + Len(frac) > 0
        THEN Num((IF neg THEN -1 ELSE 1)
                 * (DigitsToInt(int) * RateScale + DigitsToInt(PadRight(frac, RateDigits))))
        ELSE NoneNum

parse_float_ptbr(value) ==
    IF value = NoneS THEN NoneNum
    ELSE IF Strip(value) = <<>> THEN NoneNum
    ELSE LET s1 == Strip(SelectSeq(Strip(value), NotPercent))
             s2 == IF "," \in Range(s1) THEN CommaToDot(SelectSeq(s1, NotDot)) ELSE s1
         IN  ParseDecimal(Strip(s2))

\* str(n) of a non-negative int
RECURSIVE IntToStr(_)
IntToStr(n) ==
    IF n < 10 THEN <<DigitChars[n + 1]>>
    ELSE IntToStr(n \div 10) \o <<DigitChars[(n % 10) + 1]>>

YearOf(data) == data \div 10000

RECURSIVE TransicaoScan(_, _, _, _)
TransicaoScan(rows, i, year, campo_percentual) ==
    IF i > Len(rows) THEN NoneNum
    ELSE IF Strip(GetOr(rows[i], "ano")) = IntToStr(year)
         THEN (IF ~Truthy(Get(rows[i], campo_percentual)) THEN NoneNum
               ELSE parse_float_ptbr(Get(rows[i], campo_percentual)))
    ELSE TransicaoScan(rows, i + 1, year, campo_percentual)

\* a schedule lookup in which the last row of the year wins
RECURSIVE TransicaoScanBack(_, _, _, _)
TransicaoScanBack(rows, i, year, campo_percentual) ==
    IF i = 0 THEN NoneNum
    ELSE IF Strip(GetOr(rows[i], "ano")) = IntToStr(year)
         THEN (IF ~Truthy(Get(rows[i], campo_percentual)) THEN NoneNum
               ELSE parse_float_ptbr(Get(rows[i], campo_percentual)))
    ELSE TransicaoScanBack(rows, i - 1, year, campo_percentual)

year_factor_transicao_LastRow(rows, year, campo_percentual) ==
    TransicaoScanBack(rows, Len(rows), year, campo_percentual)

year_factor_transicao(rows, year, campo_percentual) ==
    TransicaoScan(rows, 1, year, campo_percentual)

\* x or 0.0
OrZero(x) == IF x.ok THEN x.v ELSE 0

\* rates whose CBS entry is recorded ahead of the IBS entry
compute_ibs_cbs_CbsFirst(src, data_emissao) ==
    [aliquota_ibs |-> OrZero(year_factor_transicao(src.transicao_ibs, YearOf(data_emissao), "percentual_ibs")),
     aliquota_cbs |-> OrZero(year_factor_transicao(src.transicao_cbs, YearOf(data_emissao), "percentual_cbs")),
     fundamentos  |->
         <<[regra |-> "ANO DE REFERENCIA", dados |-> [ano |-> YearOf(data_emissao)],
            fonte |-> "data_emissao"],
           [regra |-> "TRANSICAO CBS",
            dados |-> [ano |-> YearOf(data_emissao),
                       percentual |-> OrZero(year_factor_transicao(src.transicao_cbs, YearOf(data_emissao), "percentual_cbs"))],
            fonte |-> "transicao_cbs.csv"],
           [regra |-> "TRANSICAO IBS",
            dados |-> [ano |-> YearOf(data_emissao),
                       percentual |-> OrZero(year_factor_transicao(src.transicao_ibs, YearOf(data_emissao), "percentual_ibs"))],
            fonte |-> "transicao_ibs.csv"]>>]

compute_ibs_cbs(src, data_emissao) ==
    LET year == YearOf(data_emissao)
        ibs  == OrZero(year_factor_transicao(src.transicao_ibs, year, "percentual_ibs"))
        cbs  == OrZero(year_factor_transicao(src.transicao_cbs, year, "percentual_cbs"))
    IN  [aliquota_ibs |-> ibs,
         aliquota_cbs |-> cbs,
         fundamentos  |->
             <<[regra |-> "ANO DE REFERENCIA", dados |-> [ano |-> year],
                fonte |-> "data_emissao"],
               [regra |-> "TRANSICAO IBS", dados |-> [ano |-> year, percentual |-> ibs],
                fonte |-> "transicao_ibs.csv"],
               [regra |-> "TRANSICAO CBS", dados |-> [ano |-> year, percentual |-> cbs],
                fonte |-> "transicao_cbs.csv"]>>]

(***************************************************************************)
(* Tax-treatment pair and the selective tax                                *)
(***************************************************************************)
txt_000    == <<"0", "0", "0">>
txt_cst000 == <<"c", "s", "t", "0", "0", "0">>
txt_GERAL  == <<"G", "E", "R", "A", "L">>
txt_Tributacao_integral ==
    <<"T", "r", "i", "b", "u", "t", "a", "[c,]", "[a~]", "o", " ", "i", "n", "t", "e", "g", "r", "a", "l", " ", "-",
     " ", "p", "a", "d", "r", "[a~]", "o">>

RECURSIVE CstMapScan(_, _, _)
CstMapScan(rows, i, cclastrib_codigo) ==
    IF i > Len(rows) THEN 0
    ELSE IF Get(rows[i], "cclastrib_codigo") = cclastrib_codigo THEN i
    ELSE CstMapScan(rows, i + 1, cclastrib_codigo)

map_cst_ibs_cbs_from_cclastrib(src, cclastrib_codigo) ==
    LET i == CstMapScan(src.cst_ibs_cbs_map, 1, cclastrib_codigo)
    IN  IF i # 0
        THEN [cst_ibs_cbs |-> Get(src.cst_ibs_cbs_map[i], "cst_ibs_cbs"),
              cclass_trib |-> Get(src.cst_ibs_cbs_map[i], "cclass_trib"),
              descricao   |-> Get(src.cst_ibs_cbs_map[i], "descricao")]
        ELSE [cst_ibs_cbs |-> txt_000, cclass_trib |-> cod_000001,
              descricao   |-> txt_Tributacao_integral]

map_cst_ibs_cbs_from_categoria(categoria) ==
    [cst_ibs_cbs |-> txt_cst000, cclass_trib |-> cod_000001]

IsThresholdYear == 2027

\* ("NOCIVO", "SELETIVO", "BEBIDAS", "CIGARROS")
HarmfulCategories ==
    {<<"N", "O", "C", "I", "V", "O">>,
     <<"S", "E", "L", "E", "T", "I", "V", "O">>,
     <<"B", "E", "B", "I", "D", "A", "S">>,
     <<"C", "I", "G", "A", "R", "R", "O", "S">>}

\* a selective-tax test that does not look at the year
should_apply_is_AnyYear(data_emissao, categoria) ==
    norm_code(OrEmpty(categoria)) \in HarmfulCategories

should_apply_is(data_emissao, categoria) ==
    IF YearOf(data_emissao) < IsThresholdYear THEN FALSE
    ELSE norm_code(OrEmpty(categoria)) \in HarmfulCategories

(***************************************************************************)
(* classify: one decision per request.  q is the record of its arguments.  *)
(* The optional booleans are "True", "False" or "None"; confidence is in   *)
(* hundredths.  A justification entry is [regra, dados, fonte], dados      *)
(* being the values its text interpolates.                                 *)
(***************************************************************************)
txt_VDA_PROPRIA_INTRA ==
    <<"V", "D", "A", "-", "P", "R", "O", "P", "R", "I", "A", "-", "I", "N", "T", "R", "A">>
txt_VDA_PROPRIA_INTER ==
    <<"V", "D", "A", "-", "P", "R", "O", "P", "R", "I", "A", "-", "I", "N", "T", "E", "R">>
txt_Venda_interna ==
    <<"V", "e", "n", "d", "a", " ", "d", "e", " ", "p", "r", "o", "d", "u",
    "[c,]", "[a~]", "o", " ", "d", "o", " ", "e", "s", "t", "a", "b", "e",
    "l", "e", "c", "i", "m", "e", "n", "t", "o", " ", "(", "i", "n", "t",
    "e", "r", "n", "a", ")">>
txt_Venda_interestadual ==
    <<"V", "e", "n", "d", "a", " ", "d", "e", " ", "p", "r", "o", "d", "u",
    "[c,]", "[a~]", "o", " ", "d", "o", " ", "e", "s", "t", "a", "b", "e",
    "l", "e", "c", "i", "m", "e", "n", "t", "o", " ", "(", "i", "n", "t",
    "e", "r", "e", "s", "t", "a", "d", "u", "a", "l", ")">>
txt_ZFM_producao_propria ==
    <<"Z", "F", "M", " ", "-", " ", "P", "r", "o", "d", "u", "[c,]", "[a~]",
    "o", " ", "p", "r", "[o']", "p", "r", "i", "a", " ", "c", "o", "m", " ",
    "b", "e", "n", "e", "f", "[i']", "c", "i", "o", " ", "f", "i", "s", "c",
    "a", "l", " ", "(", "L", "C", " ", "2", "1", "4", "/", "2", "0", "2",
    "5", ")">>

ConfBase == 60

ConfStep == 20

ConfMax == 100

Min2(a, b) == IF a < b THEN a ELSE b

Fund(regra, dados, fonte) == [regra |-> regra, dados |-> dados, fonte |-> fonte]

Pend(msg, ncm) == [msg |-> msg, ncm |-> ncm]

RowOf(src, row) ==
    IF row.tbl = "ncm_excecoes" THEN src.ncm_excecoes[row.idx]
    ELSE IF row.tbl = "ncm_master" THEN src.ncm_master[row.idx]
    ELSE NoneRow

OficialDesc(r) ==
    Or2(Get(r, "Descri[c,][a~]o"),
        Or2(Get(r, "Descri[c,]ao"),
            Or2(Get(r, "Descri[C,]ao"),
                Or2(Get(r, "Descri[!][AE]o"),
                    Or2(Get(r, "Descri[c,][a~]o "), <<>>)))))

\* an eligibility test that takes an unknown registry status for an active one
zfm_context_NoneIsActive(q, ncm_beneficiado_zfm) ==
    /\ q.emitente_zfm
    /\ q.cadastro_suframa_emitente_ativo # "False"
    /\ q.produzido_zfm
    /\ ncm_beneficiado_zfm

zfm_context(q, ncm_beneficiado_zfm) ==
    /\ q.emitente_zfm
    /\ q.cadastro_suframa_emitente_ativo = "True"
    /\ q.produzido_zfm
    /\ ncm_beneficiado_zfm

\* a confidence that leaves out the step for a product row found
confianca_NoRowStep(row, cod_cclastrib) ==
    Min2(ConfBase + (IF cod_cclastrib # txt_REGRA_GERAL THEN ConfStep ELSE 0), ConfMax)

confianca(row, cod_cclastrib) ==
    Min2(ConfBase + (IF row # NoRow THEN ConfStep ELSE 0)
                  + (IF cod_cclastrib # txt_REGRA_GERAL THEN ConfStep ELSE 0),
         ConfMax)

\* a normalisation that takes a blank registry identifier as supplied
classify_norm_NoStrip(q) ==
    [cfop_code  |-> norm_code(q.cfop),
     ncm_digits |-> norm_ncm(q.ncm),
     suf_emit   |-> OrEmpty(q.cadastro_suframa_emitente),
     suf_dest   |-> OrEmpty(q.cadastro_suframa_destinatario)]

\* the request's codes as classify normalises them
classify_norm(q) ==
    [cfop_code  |-> norm_code(q.cfop),
     ncm_digits |-> norm_ncm(q.ncm),
     suf_emit   |-> Strip(OrEmpty(q.cadastro_suframa_emitente)),
     suf_dest   |-> Strip(OrEmpty(q.cadastro_suframa_destinatario))]

\* the table rows classify looks up for the normalised codes
classify_lookup(src, q, c) ==
    c @@ [cfop_row            |-> CfopGet(src.cfop_map, c.cfop_code),
          ncm_beneficiado_zfm |-> is_ncm_beneficiado_zfm(src, c.ncm_digits),
          row                 |-> ResolveRow(src, c.ncm_digits, q.data_emissao),
          calc                |-> compute_ibs_cbs(src, q.data_emissao)]

\* a derivation that takes the official catalogue's description for the
\* category of a product found in no product table
classify_context_CategoryFromCatalog(src, q, c) ==
    c @@ [produzido_emitente |-> detect_producao_emitente(c.cfop_code, c.cfop_row),
          cfop_venda_industrializado |->
              detect_venda_industrializada(c.cfop_code, c.cfop_row),
          row_oficial |-> IF c.row # NoRow THEN 0
                          ELSE find_in_oficial(src, c.ncm_digits, q.data_emissao),
          categoria |->
              IF c.row # NoRow
              THEN OrNone(Strip(Or2(Get(RowOf(src, c.row), "categoria"),
                                    Or2(Get(RowOf(src, c.row), "CATEGORIA"), <<>>))))
              ELSE IF find_in_oficial(src, c.ncm_digits, q.data_emissao) # 0
                   THEN OrNone(OficialDesc(src.ncm_oficial[
                            find_in_oficial(src, c.ncm_digits, q.data_emissao)]))
                   ELSE NoneS,
          zfm_ctx |-> zfm_context(q, c.ncm_beneficiado_zfm)]

\* what classify derives from the rows found
classify_context(src, q, c) ==
    c @@ [produzido_emitente |-> detect_producao_emitente(c.cfop_code, c.cfop_row),
          cfop_venda_industrializado |->
              detect_venda_industrializada(c.cfop_code, c.cfop_row),
          row_oficial |-> IF c.row # NoRow THEN 0
                          ELSE find_in_oficial(src, c.ncm_digits, q.data_emissao),
          categoria |->
              IF c.row # NoRow
              THEN OrNone(Strip(Or2(Get(RowOf(src, c.row), "categoria"),
                                    Or2(Get(RowOf(src, c.row), "CATEGORIA"), <<>>))))
              ELSE NoneS,
          zfm_ctx |-> zfm_context(q, c.ncm_beneficiado_zfm)]

\* the rule classify picks for the request
classify_pick(src, q, c) ==
    c @@ [picked |-> pick_cclastrib(src, q.regime, q.cfop, q.uf_emit, q.uf_dest,
                                    q.cst_icms, c.zfm_ctx)]

\* an own-production substitution that does not ask for the sentinel code
classify_codes_OwnAnyCode(src, c) ==
    LET own == c.produzido_emitente = "True"
        cod1 == IF own /\ c.cfop_code = txt_5101 THEN txt_VDA_PROPRIA_INTRA
                ELSE IF own /\ c.cfop_code = txt_6101 THEN txt_VDA_PROPRIA_INTER
                ELSE c.picked.codigo
        desc1 == IF own /\ c.cfop_code = txt_5101 THEN txt_Venda_interna
                 ELSE IF own /\ c.cfop_code = txt_6101 THEN txt_Venda_interestadual
                 ELSE c.picked.descricao
        aplica_zfm_selected ==
            /\ c.picked.candidatos # <<>>
            /\ aplica_zfm_flag(src.cclastrib[c.picked.candidatos[1]])
        override == c.zfm_ctx /\ ~aplica_zfm_selected
    IN  c @@ [cod1 |-> cod1,
              cod_cclastrib  |-> IF override THEN cod_020003 ELSE cod1,
              desc_cclastrib |-> IF override THEN txt_ZFM_producao_propria ELSE desc1]

\* a zone override that replaces the code of a zone-flagged rule as well
classify_codes_OverrideAlways(src, c) ==
    LET own == c.picked.codigo = txt_REGRA_GERAL /\ c.produzido_emitente = "True"
        cod1 == IF own /\ c.cfop_code = txt_5101 THEN txt_VDA_PROPRIA_INTRA
                ELSE IF own /\ c.cfop_code = txt_6101 THEN txt_VDA_PROPRIA_INTER
                ELSE c.picked.codigo
        desc1 == IF own /\ c.cfop_code = txt_5101 THEN txt_Venda_interna
                 ELSE IF own /\ c.cfop_code = txt_6101 THEN txt_Venda_interestadual
                 ELSE c.picked.descricao
        override == c.zfm_ctx
    IN  c @@ [cod1 |-> cod1,
              cod_cclastrib  |-> IF override THEN cod_020003 ELSE cod1,
              desc_cclastrib |-> IF override THEN txt_ZFM_producao_propria ELSE desc1]

\* the classification code after the own-production and zone overrides
classify_codes(src, c) ==
    LET own == c.picked.codigo = txt_REGRA_GERAL /\ c.produzido_emitente = "True"
        cod1 == IF own /\ c.cfop_code = txt_5101 THEN txt_VDA_PROPRIA_INTRA
                ELSE IF own /\ c.cfop_code = txt_6101 THEN txt_VDA_PROPRIA_INTER
                ELSE c.picked.codigo
        desc1 == IF own /\ c.cfop_code = txt_5101 THEN txt_Venda_interna
                 ELSE IF own /\ c.cfop_code = txt_6101 THEN txt_Venda_interestadual
                 ELSE c.picked.descricao
        beneficio_zfm_valido == c.zfm_ctx
        aplica_zfm_selected ==
            /\ c.picked.candidatos # <<>>
            /\ aplica_zfm_flag(src.cclastrib[c.picked.candidatos[1]])
        override == beneficio_zfm_valido /\ ~aplica_zfm_selected
    IN  c @@ [cod1 |-> cod1,
              cod_cclastrib  |-> IF override THEN cod_020003 ELSE cod1,
              desc_cclastrib |-> IF override THEN txt_ZFM_producao_propria ELSE desc1]

\* the row of the code map for the code picked before the zone override
classify_mapped(src, c) ==
    c @@ [mapped |-> map_cst_ibs_cbs_from_cclastrib(src, c.cod1)]

\* the situation code pair, from the code map or from the category
classify_pair(c) ==
    LET fallback == ~Truthy(c.mapped.cst_ibs_cbs) \/ ~Truthy(c.mapped.cclass_trib)
    IN  c @@ [fallback |-> fallback,
              pair     |-> IF fallback
                           THEN map_cst_ibs_cbs_from_categoria(Or2(c.categoria, txt_GERAL))
                           ELSE [cst_ibs_cbs |-> c.mapped.cst_ibs_cbs,
                                 cclass_trib |-> c.mapped.cclass_trib],
              desc_cst |-> IF fallback THEN NoneS ELSE c.mapped.descricao]

\* the result classify returns, with its grounds, alerts and pending items
classify_result(src, q, c) ==
    LET F_cfop ==
            IF IsRow(c.cfop_row)
            THEN <<Fund("CFOP",
                        [cfop |-> c.cfop_code, desc |-> CfopDesc(c.cfop_row),
                         producao_do_emitente |-> (c.produzido_emitente = "True")],
                        "cfop.csv")>>
                 \o (IF c.cfop_venda_industrializado = "True"
                     THEN <<Fund("CFOP INDUSTRIALIZADO", [cfop |-> c.cfop_code],
                                 "cfop.csv")>>
                     ELSE <<>>)
            ELSE IF c.cfop_code # <<>>
                 THEN <<Fund("CFOP", [cfop |-> c.cfop_code, nao_encontrado |-> TRUE],
                             "cfop.csv")>>
                 ELSE <<>>
        F_zfm ==
            (IF q.emitente_zfm
             THEN <<Fund("ZFM EMITENTE", [uf |-> q.uf_emit], "Entrada da API")>> ELSE <<>>)
            \o (IF q.destinatario_zfm
                THEN <<Fund("ZFM DESTINATARIO",
                            [uf |-> q.uf_dest, cMun |-> q.cod_municipio_destinatario],
                            "Entrada da API")>>
                ELSE <<>>)
        P_suf_e == IF c.suf_emit = <<>>
                   THEN <<Pend("Cadastro SUFRAMA do emitente nao informado", <<>>)>> ELSE <<>>
        F_suf_e == IF c.suf_emit = <<>> THEN <<>>
                   ELSE <<Fund("SUFRAMA EMITENTE",
                               [cadastro |-> c.suf_emit,
                                ativo |-> q.cadastro_suframa_emitente_ativo],
                               "Entrada da API")>>
        A_suf_e == IF c.suf_emit # <<>> /\ q.cadastro_suframa_emitente_ativo = "False"
                   THEN <<"Cadastro SUFRAMA do emitente informado como inativo">> ELSE <<>>
        P_suf_d == IF c.suf_dest = <<>>
                   THEN <<Pend("Cadastro SUFRAMA do destinatario nao informado", <<>>)>>
                   ELSE <<>>
        F_suf_d == IF c.suf_dest = <<>> THEN <<>>
                   ELSE <<Fund("SUFRAMA DESTINATARIO",
                               [cadastro |-> c.suf_dest,
                                ativo |-> q.cadastro_suframa_destinatario_ativo],
                               "Entrada da API")>>
        A_suf_d == IF c.suf_dest # <<>> /\ q.cadastro_suframa_destinatario_ativo = "False"
                   THEN <<"Cadastro SUFRAMA do destinatario informado como inativo">>
                   ELSE <<>>
        F_cat ==
            IF c.row # NoRow
            THEN (IF c.categoria # NoneS
                  THEN <<Fund("CATEGORIA NCM", [categoria |-> c.categoria],
                              "ncm_master.csv / ncm_excecoes.csv")>>
                  ELSE <<>>)
            ELSE IF c.row_oficial # 0
                 THEN <<Fund("NCM OFICIAL (vigencia confirmada)",
                             [descricao |-> OficialDesc(src.ncm_oficial[c.row_oficial])],
                             "Tabela_NCM_Vigente_20251227.csv")>>
                 ELSE <<>>
        P_cat ==
            IF c.row # NoRow THEN <<>>
            ELSE IF c.row_oficial # 0
                 THEN <<Pend("NCM encontrado na tabela oficial, mas sem categoria interna; aplicada regra geral.",
                             c.ncm_digits)>>
                 ELSE <<Pend("NCM nao encontrado em ncm_master/ncm_excecoes nem na tabela oficial",
                             c.ncm_digits)>>
        A_cat == IF c.row # NoRow THEN <<>>
                 ELSE <<"Tributacao aplicada pela regra geral (fallback)">>
        F_ncm_zfm ==
            IF c.ncm_beneficiado_zfm
            THEN <<Fund("NCM BENEFICIO ZFM", [ncm |-> c.ncm_digits],
                        "ncm_beneficiados_zfm.csv")>>
            ELSE <<>>
        F_cclas == <<Fund("cClasTrib", [codigo |-> c.cod1], "cclastrib.csv")>>
        F_cst == <<Fund("CST IBS/CBS",
                        [cst |-> c.pair.cst_ibs_cbs, cClassTrib |-> c.pair.cclass_trib,
                         desc |-> OrEmpty(c.desc_cst)],
                        IF c.fallback
                        THEN "fallback categoria (map_cst_ibs_cbs_from_categoria)"
                        ELSE "cst_ibs_cbs_map.csv")>>
        F_benef ==
            IF c.zfm_ctx
            THEN <<Fund("LC 214/2025 (Capitulo ZFM, arts. 439-446)", [ibs |-> 0],
                        "lc214_2025.html / entrada da API / ncm_beneficiados_zfm.csv"),
                   Fund("cClasTrib ZFM", [codigo |-> c.cod_cclastrib], "cclastrib.csv")>>
            ELSE <<>>
        A_benef ==
            IF ~c.zfm_ctx /\ q.emitente_zfm /\ q.produzido_zfm
               /\ ~c.ncm_beneficiado_zfm
            THEN <<"NCM nao listado para beneficio ZFM; IBS calculado normalmente">>
            ELSE <<>>
        F_gov == IF q.compra_gov
                 THEN <<Fund("COMPRA GOVERNAMENTAL", [compra_gov |-> TRUE], "Entrada da API")>>
                 ELSE <<>>
    IN  [categoria   |-> c.categoria,
         row         |-> c.row,
         row_oficial |-> c.row_oficial,
         cclastrib   |-> [codigo |-> c.cod_cclastrib, descricao |-> c.desc_cclastrib],
         candidatos  |-> c.picked.candidatos,
         ibs         |-> IF c.zfm_ctx THEN 0 ELSE c.calc.aliquota_ibs,
         cbs         |-> c.calc.aliquota_cbs,
         cst_ibs_cbs |-> c.pair.cst_ibs_cbs,
         cclass_trib |-> c.pair.cclass_trib,
         cfop_venda_industrializado |-> c.cfop_venda_industrializado,
         emitente_zfm     |-> q.emitente_zfm,
         destinatario_zfm |-> q.destinatario_zfm,
         cadastro_suframa_emitente |-> OrNone(c.suf_emit),
         cadastro_suframa_emitente_ativo |-> q.cadastro_suframa_emitente_ativo,
         cadastro_suframa_destinatario |-> OrNone(c.suf_dest),
         cadastro_suframa_destinatario_ativo |-> q.cadastro_suframa_destinatario_ativo,
         produzido_emitente     |-> c.produzido_emitente,
         beneficio_zfm_ibs_zero |-> c.zfm_ctx,
         ncm_beneficiado_zfm    |-> c.ncm_beneficiado_zfm,
         confianca  |-> confianca(c.row, c.cod_cclastrib),
         alertas    |-> A_suf_e \o A_suf_d \o A_cat \o A_benef,
         pendencias |-> P_suf_e \o P_suf_d \o P_cat,
         fundamentos_gerais |->
             F_cfop \o F_zfm \o F_suf_e \o F_suf_d \o F_cat \o F_ncm_zfm \o F_cclas
             \o F_cst \o c.calc.fundamentos \o F_benef \o F_gov,
         flags |-> [compra_gov |-> q.compra_gov, ind_doacao |-> q.ind_doacao,
                    aplicar_is |-> should_apply_is(q.data_emissao, c.categoria),
                    produzido_zfm |-> q.produzido_zfm,
                    beneficio_zfm_ibs_zero |-> c.zfm_ctx]]

classify(src, q) ==
    classify_result(src, q,
        classify_pair(
            classify_mapped(src,
                classify_codes(src,
                    classify_pick(src, q,
                        classify_context(src, q,
                            classify_lookup(src, q, classify_norm(q))))))))

(***************************************************************************)
(* Reference data and requests the checks draw from                        *)
(***************************************************************************)
MaxExcRows == 2

MaxMasterRows == 1

SeqsUpTo(S, n) == UNION {[1..k -> S] : k \in 0..n}

EmptySources ==
    [ncm_master |-> <<>>, ncm_excecoes |-> <<>>, ncm_oficial |-> <<>>,
     transicao_ibs |-> <<>>, transicao_cbs |-> <<>>, cclastrib |-> <<>>,
     cst_ibs_cbs_map |-> <<>>, cfop_map |-> <<>>, ncm_beneficiados_zfm |-> <<>>]

\* product codes: 1234.56.78 in several spellings, and a neighbour
ncm_A      == <<"1", "2", "3", "4", "5", "6", "7", "8">>
ncm_A_dots == <<"1", "2", "3", "4", ".", "5", "6", ".", "7", "8">>
ncm_A_9    == <<"1", "2", "3", "4", "5", "6", "7", "8", "9">>
ncm_A_10   == <<"1", "2", "3", "4", "5", "6", "7", "8", "0", "0">>
ncm_A_7    == <<"1", "2", "3", "4", "5", "6", "7">>
ncm_B      == <<"1", "2", "3", "4", "5", "6", "7", "9">>

iso_20260101 == <<"2", "0", "2", "6", "-", "0", "1", "-", "0", "1">>

cat_ESSENCIAL == <<"E", "S", "S", "E", "N", "C", "I", "A", "L">>
cat_BEBIDAS   == <<"B", "E", "B", "I", "D", "A", "S">>
cat_bebidas   == <<"b", "e", "b", "i", "d", "a", "s", " ">>

NcmInputs == {ncm_A, ncm_A_dots, ncm_A_9, ncm_A_7, ncm_B}

EmissionDates == {20251231, 20260101, 20260102}

\* rows of ncm_excecoes.csv: ncm;categoria;vigencia_inicio;vigencia_fim
ExcRows ==
    {[ncm |-> ncm_A_dots, categoria |-> cat_BEBIDAS],
     [ncm |-> ncm_A, categoria |-> cat_bebidas,
      vigencia_inicio |-> <<>>, vigencia_fim |-> iso_20260101],
     [ncm |-> ncm_A_10, categoria |-> <<>>,
      vigencia_inicio |-> iso_20260101, vigencia_fim |-> <<>>],
     [ncm |-> ncm_B, categoria |-> cat_BEBIDAS,
      vigencia_inicio |-> <<>>, vigencia_fim |-> <<>>]}

\* rows of ncm_master.csv
MasterRows ==
    {[ncm |-> ncm_A_10, categoria |-> cat_ESSENCIAL],
     [ncm |-> ncm_A_dots, categoria |-> cat_ESSENCIAL,
      vigencia_inicio |-> <<>>, vigencia_fim |-> iso_20260101],
     [ncm |-> ncm_A, categoria |-> cat_ESSENCIAL,
      vigencia_inicio |-> iso_20260101, vigencia_fim |-> iso_20260101],
     [ncm |-> <<>>, categoria |-> cat_ESSENCIAL]}

(***************************************************************************)
(* The product-category resolution of classify, applied to two requested   *)
(* codes against the same snapshot and date.                               *)
(***************************************************************************)
InitResolve ==
    /\ \E ex \in SeqsUpTo(ExcRows, MaxExcRows), ma \in SeqsUpTo(MasterRows, MaxMasterRows) :
           sources = [EmptySources EXCEPT !.ncm_excecoes = ex, !.ncm_master = ma]
    /\ \E n \in NcmInputs, n2 \in NcmInputs, d \in EmissionDates :
           req = [op |-> "resolve", ncm |-> n, ncm2 |-> n2, data_emissao |-> d]
    /\ out = [op |-> "none"]
    /\ NoAgent

Resolve ==
    /\ req.op = "resolve"
    /\ out.op = "none"
    /\ out' = [op   |-> "resolve",
               exc  |-> find_excecao(sources, norm_ncm(req.ncm), req.data_emissao),
               mst  |-> find_in_master(sources, norm_ncm(req.ncm), req.data_emissao),
               row  |-> ResolveRow(sources, norm_ncm(req.ncm), req.data_emissao),
               row2 |-> ResolveRow(sources, norm_ncm(req.ncm2), req.data_emissao)]
    /\ UNCHANGED <<sources, req>>
    /\ UNCHANGED agentVars

NextResolve == Resolve

SpecResolve == InitResolve /\ [][NextResolve]_vars

\* The validity window as the data model states it: inclusive bounds, a
\* missing bound leaves that side (and only that side) open.
InWindow(r, d) ==
    /\ (Truthy(Get(r, "vigencia_inicio")) => fromisoformat(r.vigencia_inicio) <= d)
    /\ (Truthy(Get(r, "vigencia_fim")) => d <= fromisoformat(r.vigencia_fim))

SamePrefix(r, digits) ==
    /\ Truthy(GetOr(r, "ncm"))
    /\ Take(norm_ncm(r.ncm), NcmPrefixLen) = Take(digits, NcmPrefixLen)

\* position of the first row of the table that matches prefix and window, 0 if none
FirstValid(rows, digits, d) ==
    LET ok == {i \in DOMAIN rows : SamePrefix(rows[i], digits) /\ InWindow(rows[i], d)}
    IN  IF ok = {} THEN 0 ELSE CHOOSE i \in ok : \A j \in ok : i <= j

\* C6: a row accepted by find_excecao or by find_in_master has the
\* effective date inside its inclusive validity window (a missing start
\* opens the past only, a missing end the future only), and a row whose
\* prefix matches with the date inside the window - a date equal to a bound
\* included - is not passed over: each lookup returns the first such row.
C6_WindowBothLookups ==
    out.op = "resolve" =>
        /\ out.exc = FirstValid(sources.ncm_excecoes, norm_ncm(req.ncm), req.data_emissao)
        /\ out.mst = FirstValid(sources.ncm_master, norm_ncm(req.ncm), req.data_emissao)

\* C7: the resolved row is the first exception row matching prefix and
\* window when there is one, whatever the master table holds; otherwise the
\* first matching master row; otherwise none.
C7_ExceptionFirst ==
    out.op = "resolve" =>
        LET fe == FirstValid(sources.ncm_excecoes, norm_ncm(req.ncm), req.data_emissao)
            fm == FirstValid(sources.ncm_master, norm_ncm(req.ncm), req.data_emissao)
        IN  out.row = IF fe # 0 THEN [tbl |-> "ncm_excecoes", idx |-> fe]
                      ELSE IF fm # 0 THEN [tbl |-> "ncm_master", idx |-> fm]
                      ELSE NoRow

\* C8: two requested codes whose digit-only forms share their first 8
\* digits resolve to the same row, or both to none.
C8_PrefixStable ==
    out.op = "resolve" =>
        (Take(norm_ncm(req.ncm), NcmPrefixLen) = Take(norm_ncm(req.ncm2), NcmPrefixLen)
            => out.row = out.row2)

C8_Witness ==
    /\ out.op = "resolve"
    /\ req.ncm = ncm_A_dots
    /\ req.ncm2 = ncm_A_9
    /\ out.row # NoRow
    /\ out.row = out.row2

(***************************************************************************)
(* The rule matcher applied to one request against one rule table.         *)
(***************************************************************************)
MaxRules == 2


\* rows of cclastrib.csv:
\* codigo;descricao;regime_emitente;cfop;uf_origem;uf_destino;cst_icms;aplica_zfm
Rule(cod, reg, cf, ufo, ufd, cst, zfm) ==
    [codigo |-> cod, descricao |-> cod, regime_emitente |-> reg, cfop |-> cf,
     uf_origem |-> ufo, uf_destino |-> ufd, cst_icms |-> cst, aplica_zfm |-> zfm]

RuleRows ==
    {Rule(cod_000001, txt_STAR, <<>>, <<>>, <<>>, <<>>, <<>>),
     Rule(cod_010001, <<"s", "n">>, txt_5101, <<>>, <<>>, <<>>, <<"N">>),
     Rule(cod_010002, txt_SN, <<>>, <<>>, txt_BANG, <<>>, <<>>),
     Rule(<<>>, <<>>, txt_STAR, txt_sp, txt_SP, <<>>, <<>>),
     Rule(cod_020001, <<>>, <<>>, <<>>, <<>>, <<>>, <<"S">>),
     Rule(cod_020002, txt_SN, txt_5101, <<>>, <<>>, <<>>, <<"s", "i", "m">>),
     \* a header that uses every alias column, each filled
     [CODIGO |-> cod_010003, regime_emitente |-> txt_SN, regime |-> txt_SN,
      regime_fiscal |-> txt_SN, cfop |-> txt_5101, uf_origem |-> txt_SP,
      uf_emitente |-> txt_SP, uf_destino |-> txt_SP, uf_destinatario |-> txt_SP,
      cst_icms |-> txt_00, apply_zfm |-> <<>>]}

PickRequests ==
    [op : {"pick"}, regime : {txt_SN, txt_sn_sp, txt_RPA}, cfop : {txt_5101, txt_6102},
     uf_emit : {txt_SP, txt_RJ}, uf_dest : {txt_SP, txt_RJ}, cst_icms : {txt_00, txt_20},
     zfm_context : BOOLEAN]

InitPick ==
    /\ \E rules \in SeqsUpTo(RuleRows, MaxRules) :
           sources = [EmptySources EXCEPT !.cclastrib = rules]
    /\ req \in PickRequests
    /\ out = [op |-> "none"]
    /\ NoAgent

Pick ==
    /\ req.op = "pick"
    /\ out.op = "none"
    /\ out' = [op |-> "pick"] @@
              pick_cclastrib(sources, req.regime, req.cfop, req.uf_emit, req.uf_dest,
                             req.cst_icms, req.zfm_context)
    /\ UNCHANGED <<sources, req>>
    /\ UNCHANGED agentVars

NextPick == Pick

SpecPick == InitPick /\ [][NextPick]_vars

\* the cell of a rule that a column and its aliases give, trimmed and upper-cased
Cell(r, keys) ==
    LET set == {i \in DOMAIN keys : Truthy(Get(r, keys[i]))}
    IN  IF set = {} THEN <<>>
        ELSE norm_code(r[keys[CHOOSE i \in set : \A j \in set : i <= j]])

Wild(c) == c = <<>> \/ c = txt_STAR

Flagged(r) == Cell(r, <<"aplica_zfm", "apply_zfm">>) \in ZfmYes

\* the candidate condition as the matcher's contract states it
IsCandidate(r, q) ==
    LET dest == Cell(r, <<"uf_destino", "uf_destinatario">>)
    IN  /\ \A f \in {<<<<"regime_emitente", "regime", "regime_fiscal">>, q.regime>>,
                     <<<<"cfop">>, q.cfop>>,
                     <<<<"uf_origem", "uf_emitente">>, q.uf_emit>>,
                     <<<<"cst_icms">>, q.cst_icms>>} :
               Wild(Cell(r, f[1])) \/ Cell(r, f[1]) = Upper(Strip(f[2]))
        /\ \/ Wild(dest)
           \/ dest = Upper(Strip(q.uf_dest))
           \/ dest = txt_BANG /\ Upper(Strip(q.uf_dest)) # Upper(Strip(q.uf_emit))
        /\ (Flagged(r) => q.zfm_context)

\* C9: the candidates are exactly the rules whose regime, operation-type,
\* origin and tax-situation cells are blank, '*' or the normalized request
\* value, whose destination cell is blank, '*', the request destination, or
\* '!' with destination different from origin, and which are not
\* zone-flagged unless the context is zone-benefit; so outside a
\* zone-benefit context no zone-flagged rule is a candidate or selected.
C9_CandidateIff ==
    out.op = "pick" =>
        /\ Range(out.candidatos) =
               {i \in DOMAIN sources.cclastrib : IsCandidate(sources.cclastrib[i], req)}
        /\ (~req.zfm_context =>
               \A i \in Range(out.candidatos) : ~Flagged(sources.cclastrib[i]))

C9_Witness ==
    /\ out.op = "pick"
    /\ Len(sources.cclastrib) = 2
    /\ Len(out.candidatos) = 1
    /\ \E i \in DOMAIN sources.cclastrib :
           /\ Flagged(sources.cclastrib[i])
           /\ i \notin Range(out.candidatos)
           /\ ~req.zfm_context
    /\ \E i \in Range(out.candidatos) :
           Cell(sources.cclastrib[i], <<"uf_destino", "uf_destinatario">>) = txt_BANG

\* C10: the candidate list holds each candidate once, ordered by score
\* descending with equal scores in rule-table order, and the returned code
\* is that of the earliest table row among the highest-scoring candidates.
C10_OrderStable ==
    out.op = "pick" =>
        LET c  == out.candidatos
            sc(i) == score(sources.cclastrib[i], req.zfm_context)
        IN  /\ \A p, q \in DOMAIN c :
                   p < q => \/ sc(c[p]) > sc(c[q])
                            \/ sc(c[p]) = sc(c[q]) /\ c[p] < c[q]
            /\ Len(c) = Cardinality({i \in DOMAIN sources.cclastrib :
                                        IsCandidate(sources.cclastrib[i], req)})
            /\ c # <<>> =>
                   /\ \A i \in Range(c) : sc(c[1]) > sc(i) \/ (sc(c[1]) = sc(i) /\ c[1] <= i)
                   /\ out.codigo = Or2(Get(sources.cclastrib[c[1]], "codigo"),
                                       Or2(Get(sources.cclastrib[c[1]], "CODIGO"),
                                           txt_REGRA_GERAL))

C10_Witness ==
    /\ out.op = "pick"
    /\ out.candidatos = <<1, 2>>
    /\ sources.cclastrib[1] # sources.cclastrib[2]
    /\ score(sources.cclastrib[1], req.zfm_context)
           = score(sources.cclastrib[2], req.zfm_context)
    /\ score(sources.cclastrib[1], req.zfm_context) > 0

\* the number of a rule's matching columns that are neither blank nor '*'
FilledFields(r) ==
    Cardinality({i \in DOMAIN ScoreKeys :
                    ~Wild(Strip(IF Truthy(Get(r, ScoreKeys[i])) THEN r[ScoreKeys[i]]
                                ELSE <<>>))})

\* C11: in a zone-benefit context a zone-flagged candidate stands ahead of
\* every non-flagged candidate with the same number of filled columns, its
\* score being that number plus 10; outside a zone-benefit context the
\* score of every rule is the number of its filled columns alone.
C11_ZfmBonusRanks ==
    out.op = "pick" =>
        LET c    == out.candidatos
            rows == sources.cclastrib
        IN  /\ req.zfm_context =>
                   \A p, q \in DOMAIN c :
                       (/\ Flagged(rows[c[p]])
                        /\ ~Flagged(rows[c[q]])
                        /\ FilledFields(rows[c[p]]) = FilledFields(rows[c[q]]))
                       => p < q
            /\ \A i \in DOMAIN rows :
                   score(rows[i], req.zfm_context) =
                       FilledFields(rows[i])
                       + (IF req.zfm_context /\ Flagged(rows[i]) THEN 10 ELSE 0)

C11_Witness ==
    /\ out.op = "pick"
    /\ req.zfm_context
    /\ out.candidatos = <<2, 1>>
    /\ Flagged(sources.cclastrib[2])
    /\ ~Flagged(sources.cclastrib[1])
    /\ FilledFields(sources.cclastrib[1]) = FilledFields(sources.cclastrib[2])
    /\ FilledFields(sources.cclastrib[1]) > 0

\* C12: when no rule of the table is a candidate for the request, the
\* matcher returns the code REGRA-GERAL, the generic description and an
\* empty candidate list.
C12_NoCandidateSentinel ==
    (/\ out.op = "pick"
     /\ \A i \in DOMAIN sources.cclastrib : ~IsCandidate(sources.cclastrib[i], req))
    => /\ out.codigo = txt_REGRA_GERAL
       /\ out.descricao = txt_Regra_geral_sem_match
       /\ out.candidatos = <<>>

C12_Witness ==
    /\ out.op = "pick"
    /\ Len(sources.cclastrib) = 2
    /\ \A i \in DOMAIN sources.cclastrib :
           /\ ~IsCandidate(sources.cclastrib[i], req)
           /\ Truthy(Get(sources.cclastrib[i], "codigo"))
    /\ out.codigo = txt_REGRA_GERAL
    /\ out.candidatos = <<>>

\* C29: in a zone-benefit context, when a zone-flagged rule is among the
\* candidates the selected rule (the head of the candidate list, whose code
\* is returned) is zone-flagged, however many columns the non-flagged
\* candidates fill; no rule fills more than the nine scored columns, which
\* is less than the bonus of 10.
C29_FlaggedWins ==
    out.op = "pick" =>
        LET c    == out.candidatos
            rows == sources.cclastrib
        IN  /\ \A i \in DOMAIN rows :
                   /\ FilledFields(rows[i]) <= 9
                   /\ FilledFields(rows[i]) < ZfmBonus
            /\ (req.zfm_context /\ \E p \in DOMAIN c : Flagged(rows[c[p]]))
               => /\ Flagged(rows[c[1]])
                  /\ out.codigo = Or2(Get(rows[c[1]], "codigo"),
                                      Or2(Get(rows[c[1]], "CODIGO"), txt_REGRA_GERAL))

C29_Witness ==
    /\ out.op = "pick"
    /\ req.zfm_context
    /\ out.candidatos = <<2, 1>>
    /\ Flagged(sources.cclastrib[2])
    /\ ~Flagged(sources.cclastrib[1])
    /\ FilledFields(sources.cclastrib[1]) = 9
    /\ FilledFields(sources.cclastrib[2]) = 0
    /\ out.codigo = cod_020001

(***************************************************************************)
(* classify applied to one request against one snapshot.                   *)
(***************************************************************************)
MaxZfmList == 1

txt_2026 == <<"2", "0", "2", "6">>
txt_2027 == <<"2", "0", "2", "7">>
txt_suframa_id == <<"2", "1", "0", "0", "1">>

desc_5101 ==
    <<"V", "e", "n", "d", "a", " ", "d", "e", " ", "p", "r", "o", "d", "u",
    "[c,]", "[a~]", "o", " ", "d", "o", " ", "e", "s", "t", "a", "b", "e",
    "l", "e", "c", "i", "m", "e", "n", "t", "o">>
desc_6102 ==
    <<"V", "e", "n", "d", "a", " ", "d", "e", " ", "m", "e", "r", "c", "a",
    "d", "o", "r", "i", "a", " ", "a", "d", "q", "u", "i", "r", "i", "d",
    "a", " ", "o", "u", " ", "r", "e", "c", "e", "b", "i", "d", "a", " ",
    "d", "e", " ", "t", "e", "r", "c", "e", "i", "r", "o", "s">>

\* rows of cfop.csv: CFOP;DESCRICAO_CFOP
CfopRows ==
    <<[CFOP |-> txt_5101, DESCRICAO_CFOP |-> desc_5101],
      [CFOP |-> txt_6101, DESCRICAO_CFOP |-> desc_5101],
      [CFOP |-> txt_6102, DESCRICAO_CFOP |-> desc_6102]>>

\* rows of ncm_beneficiados_zfm.csv
ZfmListRows == {[ncm |-> ncm_A_10], [NCM |-> ncm_B]}

\* transicao_ibs.csv (ano;percentual_ibs) and transicao_cbs.csv (ano;percentual_cbs)
TransicaoIbs ==
    <<[ano |-> txt_2026, percentual_ibs |-> <<"0", ".", "0", "0", "1">>],
      [ano |-> txt_2027, percentual_ibs |-> <<>>],
      [ano |-> txt_2026, percentual_ibs |-> <<"0", ",", "5">>]>>

\* no row for 2027
TransicaoCbs ==
    <<[ano |-> <<" ", "2", "0", "2", "6">>, percentual_cbs |-> <<"0", ",", "9", "%">>]>>

\* rows of cst_ibs_cbs_map.csv: cclastrib_codigo;cst_ibs_cbs;cclass_trib;descricao
CstMapRows ==
    <<[cclastrib_codigo |-> cod_020003, cst_ibs_cbs |-> <<"2", "0", "0">>,
       cclass_trib |-> <<"2", "0", "0", "0", "0", "3">>, descricao |-> txt_AM],
      [cclastrib_codigo |-> cod_020001, cst_ibs_cbs |-> <<>>,
       cclass_trib |-> <<"2", "0", "0", "0", "0", "1">>, descricao |-> txt_AM]>>

\* the rule tables the classify checks draw from
ClassifyRuleTables ==
    {<<>>,
     <<Rule(cod_000001, txt_STAR, <<>>, <<>>, <<>>, <<>>, <<>>)>>,
     <<Rule(<<>>, txt_SN, <<>>, <<>>, <<>>, <<>>, <<>>)>>,
     <<Rule(cod_010001, txt_RPA, <<>>, <<>>, <<>>, <<>>, <<>>)>>,
     <<Rule(cod_000001, <<>>, <<>>, <<>>, <<>>, <<>>, <<>>),
       Rule(cod_020001, <<>>, <<>>, <<>>, <<>>, <<>>, <<"S">>)>>}

\* the product tables they draw from: <<ncm_excecoes, ncm_master>>
ClassifyProductTables ==
    {<<<<>>, <<>>>>,
     <<<<>>, <<[ncm |-> ncm_A_dots, categoria |-> cat_ESSENCIAL]>>>>,
     <<<<[ncm |-> ncm_A, categoria |-> <<>>, vigencia_inicio |-> <<>>,
          vigencia_fim |-> <<>>]>>,
       <<[ncm |-> ncm_A_dots, categoria |-> cat_ESSENCIAL]>>>>}

BaseSources ==
    [EmptySources EXCEPT !.cfop_map = build_cfop_index(CfopRows),
                         !.cst_ibs_cbs_map = CstMapRows]

BaseRequest ==
    [op |-> "classify", regime |-> txt_SN, cfop |-> txt_5101, uf_emit |-> txt_AM,
     uf_dest |-> txt_SP, cst_icms |-> txt_00, ncm |-> ncm_A_dots,
     data_emissao |-> 20260101, compra_gov |-> FALSE, ind_doacao |-> FALSE,
     produzido_zfm |-> FALSE, emitente_zfm |-> FALSE, destinatario_zfm |-> FALSE,
     cadastro_suframa_emitente |-> NoneS, cadastro_suframa_emitente_ativo |-> "None",
     cadastro_suframa_destinatario |-> NoneS,
     cadastro_suframa_destinatario_ativo |-> "None",
     cod_municipio_destinatario |-> 0]

\* the registry identifiers and statuses of issuer and recipient
SuframaInputs ==
    {[emit |-> NoneS, emit_ativo |-> "None", dest |-> NoneS, dest_ativo |-> "None"],
     [emit |-> txt_suframa_id, emit_ativo |-> "True",
      dest |-> txt_suframa_id, dest_ativo |-> "False"],
     [emit |-> txt_suframa_id, emit_ativo |-> "False",
      dest |-> <<" ">>, dest_ativo |-> "False"],
     [emit |-> <<" ">>, emit_ativo |-> "False",
      dest |-> txt_suframa_id, dest_ativo |-> "True"],
     [emit |-> NoneS, emit_ativo |-> "True", dest |-> NoneS, dest_ativo |-> "None"]}

Init ==
    /\ \E zl \in SeqsUpTo(ZfmListRows, MaxZfmList), rules \in ClassifyRuleTables,
          pt \in ClassifyProductTables, tr \in BOOLEAN :
           sources = [BaseSources EXCEPT
                          !.ncm_beneficiados_zfm = zl,
                          !.cclastrib = rules,
                          !.ncm_excecoes = pt[1],
                          !.ncm_master = pt[2],
                          !.transicao_ibs = IF tr THEN TransicaoIbs ELSE <<>>,
                          !.transicao_cbs = IF tr THEN TransicaoCbs ELSE <<>>]
    /\ \E cf \in {txt_5101, txt_6101, txt_6102}, n \in {ncm_A_dots, ncm_B},
          d \in {20260101, 20270101}, pz \in BOOLEAN, ez \in BOOLEAN,
          suf \in SuframaInputs :
           req = [BaseRequest EXCEPT
                      !.cfop = cf, !.ncm = n, !.data_emissao = d,
                      !.produzido_zfm = pz, !.emitente_zfm = ez,
                      !.cadastro_suframa_emitente = suf.emit,
                      !.cadastro_suframa_emitente_ativo = suf.emit_ativo,
                      !.cadastro_suframa_destinatario = suf.dest,
                      !.cadastro_suframa_destinatario_ativo = suf.dest_ativo]
    /\ out = [op |-> "none"]
    /\ NoAgent

Classify ==
    /\ req.op = "classify"
    /\ out.op = "none"
    /\ out' = [op |-> "classify"] @@ classify(sources, req)
    /\ UNCHANGED <<sources, req>>
    /\ UNCHANGED agentVars

Next == Classify

Spec == Init /\ [][Next]_vars

\* the product code's first 8 digits appear in the zone-benefit list
InZfmList(src, ncm) ==
    Take(norm_ncm(ncm), NcmPrefixLen) \in
        {Take(norm_ncm(Or2(Get(r, "ncm"), Or2(Get(r, "NCM"), <<>>))), NcmPrefixLen) :
            r \in Range(src.ncm_beneficiados_zfm)}

\* the transition rate of a year: the percentage of the first schedule row
\* of that year, 0 when there is none or it gives no number
TransitionRate(rows, year, campo) ==
    LET hits == {i \in DOMAIN rows : Strip(GetOr(rows[i], "ano")) = IntToStr(year)}
    IN  IF hits = {} THEN 0
        ELSE LET r == rows[CHOOSE i \in hits : \A j \in hits : i <= j]
             IN  IF Truthy(Get(r, campo)) THEN OrZero(parse_float_ptbr(r[campo])) ELSE 0

FourConditions ==
    /\ req.emitente_zfm
    /\ req.cadastro_suframa_emitente_ativo = "True"
    /\ req.produzido_zfm
    /\ InZfmList(sources, req.ncm)

\* C1: the zone benefit is reported applied, and the IBS rate forced to
\* zero, if and only if the issuer is in the zone, its registry status is
\* exactly True, the item is zone-produced and the product code's first 8
\* digits are on the zone-benefit list; with any one of the four false the
\* flag is false and the IBS rate is the transition rate of the emission year.
C1_ZfmIffFourConditions ==
    out.op = "classify" =>
        /\ out.beneficio_zfm_ibs_zero = FourConditions
        /\ out.flags.beneficio_zfm_ibs_zero = FourConditions
        /\ (FourConditions => out.ibs = 0)
        /\ (~FourConditions =>
               out.ibs = TransitionRate(sources.transicao_ibs, YearOf(req.data_emissao),
                                        "percentual_ibs"))

C1_Witness ==
    /\ out.op = "classify"
    /\ FourConditions
    /\ out.beneficio_zfm_ibs_zero
    /\ out.ibs = 0
    /\ TransitionRate(sources.transicao_ibs, YearOf(req.data_emissao), "percentual_ibs") > 0

\* C5: the confidence lies in [0, 1] and is min(1, 0.6 + 0.2 [a product row
\* was found] + 0.2 [the final code is not REGRA-GERAL]), in hundredths.
C5_Confidence ==
    out.op = "classify" =>
        /\ out.confianca \in 0..100
        /\ out.confianca =
               Min2(100, 60 + (IF out.row # NoRow THEN 20 ELSE 0)
                            + (IF out.cclastrib.codigo # txt_REGRA_GERAL THEN 20 ELSE 0))

C5_Witness ==
    /\ out.op = "classify"
    /\ out.row # NoRow
    /\ out.cclastrib.codigo # txt_REGRA_GERAL
    /\ out.confianca = 100

\* the rule ranked first among the candidates is zone-flagged
TopFlagged == out.candidatos # <<>> /\ Flagged(sources.cclastrib[out.candidatos[1]])

txt_LC214 == "LC 214/2025 (Capitulo ZFM, arts. 439-446)"

\* C13: for an eligible request whose first-ranked candidate is not
\* zone-flagged, or that has no candidate, the code and description are the
\* override 020003; when the first-ranked candidate is zone-flagged its code
\* is kept; and the justification trail cites LC 214/2025 exactly when the
\* request is eligible.
C13_ZfmOverride ==
    out.op = "classify" =>
        /\ (FourConditions /\ ~TopFlagged) =>
               out.cclastrib = [codigo |-> cod_020003,
                                descricao |-> txt_ZFM_producao_propria]
        /\ (FourConditions /\ TopFlagged
               /\ Truthy(Get(sources.cclastrib[out.candidatos[1]], "codigo"))) =>
               out.cclastrib.codigo = sources.cclastrib[out.candidatos[1]].codigo
        /\ FourConditions <=>
               \E i \in DOMAIN out.fundamentos_gerais :
                   out.fundamentos_gerais[i].regra = txt_LC214

C13_Witness ==
    /\ out.op = "classify"
    /\ FourConditions
    /\ out.candidatos # <<>>
    /\ ~TopFlagged
    /\ Truthy(Get(sources.cclastrib[out.candidatos[1]], "codigo"))
    /\ out.cclastrib.codigo = cod_020003
    /\ \E i \in DOMAIN out.fundamentos_gerais :
           out.fundamentos_gerais[i].regra = txt_LC214

\* the rows of the tax-treatment mapping table for a classification code
MapHits(code) ==
    {i \in DOMAIN sources.cst_ibs_cbs_map :
        Get(sources.cst_ibs_cbs_map[i], "cclastrib_codigo") = code}

\* the zone override replaced the selected code by 020003
Overridden == FourConditions /\ ~TopFlagged

\* C14: the tax-treatment pair of the result is the one of the final
\* classification code: whenever the override replaced the selected code by
\* 020003, the pair is that of the mapping-table row of 020003.
C14_PairOfFinalCode ==
    (out.op = "classify" /\ Overridden /\ MapHits(cod_020003) # {}) =>
        LET r == sources.cst_ibs_cbs_map[CHOOSE i \in MapHits(cod_020003) :
                                            \A j \in MapHits(cod_020003) : i <= j]
        IN  /\ out.cclastrib.codigo = cod_020003
            /\ out.cst_ibs_cbs = r.cst_ibs_cbs
            /\ out.cclass_trib = r.cclass_trib

\* C15: when the classification code has no row in the mapping table, the
\* pair is the category default, map_cst_ibs_cbs_from_categoria(category or
\* 'GERAL'), and the tax-treatment justification entry names the category
\* fallback as its source.
C15_CategoryFallback ==
    (out.op = "classify" /\ ~Overridden /\ MapHits(out.cclastrib.codigo) = {}) =>
        LET d == map_cst_ibs_cbs_from_categoria(Or2(out.categoria, txt_GERAL))
        IN  /\ out.cst_ibs_cbs = d.cst_ibs_cbs
            /\ out.cclass_trib = d.cclass_trib
            /\ \E i \in DOMAIN out.fundamentos_gerais :
                   /\ out.fundamentos_gerais[i].regra = "CST IBS/CBS"
                   /\ out.fundamentos_gerais[i].fonte =
                          "fallback categoria (map_cst_ibs_cbs_from_categoria)"

\* every eligibility condition holds except the product being listed
UnlistedOnly ==
    /\ req.emitente_zfm
    /\ req.cadastro_suframa_emitente_ativo = "True"
    /\ req.produzido_zfm
    /\ ~InZfmList(sources, req.ncm)

txt_alerta_nao_listado == "NCM nao listado para beneficio ZFM; IBS calculado normalmente"

txt_pend_suframa_emitente == "Cadastro SUFRAMA do emitente nao informado"

txt_pend_suframa_destinatario == "Cadastro SUFRAMA do destinatario nao informado"

\* C16: a zone-produced item whose product code is the only failing
\* eligibility condition gets the transition IBS rate of the year and the
\* alert that standard taxation applies, and no pending item for it: every
\* pending item is a registry or a category entry; and the alert appears
\* only when the unlisted product is the only failing condition.
C16_UnlistedAlert ==
    out.op = "classify" =>
        /\ UnlistedOnly =>
               /\ out.ibs = TransitionRate(sources.transicao_ibs,
                                           YearOf(req.data_emissao), "percentual_ibs")
               /\ \E i \in DOMAIN out.alertas : out.alertas[i] = txt_alerta_nao_listado
               /\ \A i \in DOMAIN out.pendencias :
                      \/ out.pendencias[i].ncm # <<>>
                      \/ out.pendencias[i].msg \in {txt_pend_suframa_emitente,
                                                    txt_pend_suframa_destinatario}
        /\ (\E i \in DOMAIN out.alertas : out.alertas[i] = txt_alerta_nao_listado)
               => UnlistedOnly

\* C17: a registry status that is explicitly False, of the issuer or of the
\* recipient, is recorded as an alert whether or not the identifier is given.
C17_InactiveAlert ==
    out.op = "classify" =>
        /\ req.cadastro_suframa_emitente_ativo = "False" =>
               \E i \in DOMAIN out.alertas :
                   out.alertas[i] = "Cadastro SUFRAMA do emitente informado como inativo"
        /\ req.cadastro_suframa_destinatario_ativo = "False" =>
               \E i \in DOMAIN out.alertas :
                   out.alertas[i] = "Cadastro SUFRAMA do destinatario informado como inativo"

\* a registry identifier that is absent or blank
BlankId(s) == s = NoneS \/ \A i \in DOMAIN s : IsSpace(s[i])

\* C18: whenever the issuer's (the recipient's) registry identifier is
\* absent or blank, the pending items hold the entry that the identifier
\* is not informed, whatever the other attributes and whether or not the
\* zone benefit is applied.
C18_MissingIdPending ==
    out.op = "classify" =>
        /\ BlankId(req.cadastro_suframa_emitente) =>
               \E i \in DOMAIN out.pendencias :
                   out.pendencias[i] = Pend(txt_pend_suframa_emitente, <<>>)
        /\ BlankId(req.cadastro_suframa_destinatario) =>
               \E i \in DOMAIN out.pendencias :
                   out.pendencias[i] = Pend(txt_pend_suframa_destinatario, <<>>)

C18_Witness ==
    /\ out.op = "classify"
    /\ out.beneficio_zfm_ibs_zero
    /\ req.cadastro_suframa_emitente = NoneS
    /\ out.pendencias = <<Pend(txt_pend_suframa_emitente, <<>>),
                          Pend(txt_pend_suframa_destinatario, <<>>)>>

\* the matcher returned the sentinel code: no candidate, or a first-ranked
\* rule without a code
SentinelPicked ==
    \/ out.candidatos = <<>>
    \/ Or2(Get(sources.cclastrib[out.candidatos[1]], "codigo"),
           Or2(Get(sources.cclastrib[out.candidatos[1]], "CODIGO"), txt_REGRA_GERAL))
       = txt_REGRA_GERAL

\* the request of the end-to-end example: operation type 5101 described as
\* own production, no rule matching, no product row, year 2026, no zone flag
OwnProductionExample ==
    /\ norm_code(req.cfop) = txt_5101
    /\ out.produzido_emitente = "True"
    /\ out.candidatos = <<>>
    /\ out.row = NoRow
    /\ YearOf(req.data_emissao) = 2026
    /\ ~req.emitente_zfm /\ ~req.destinatario_zfm /\ ~req.produzido_zfm

\* C19: in the end-to-end example the code is VDA-PROPRIA-INTRA, the
\* missing category gives exactly one pending item and exactly one alert,
\* and the confidence is 0.8; and a code is replaced by an own-production
\* code only when the matcher returned the sentinel, own production is
\* confirmed and the operation type is 5101 or 6101.
C19_OwnProductionFallback ==
    out.op = "classify" =>
        /\ OwnProductionExample =>
               /\ out.cclastrib.codigo = txt_VDA_PROPRIA_INTRA
               /\ Cardinality({i \in DOMAIN out.pendencias :
                                  out.pendencias[i].ncm # <<>>}) = 1
               /\ Cardinality({i \in DOMAIN out.alertas :
                                  out.alertas[i] =
                                      "Tributacao aplicada pela regra geral (fallback)"}) = 1
               /\ out.confianca = 80
        /\ out.cclastrib.codigo \in {txt_VDA_PROPRIA_INTRA, txt_VDA_PROPRIA_INTER} =>
               /\ SentinelPicked
               /\ out.produzido_emitente = "True"
               /\ norm_code(req.cfop) =
                      (IF out.cclastrib.codigo = txt_VDA_PROPRIA_INTRA
                       THEN txt_5101 ELSE txt_6101)
        /\ (SentinelPicked /\ out.produzido_emitente = "True" /\ ~Overridden
               /\ norm_code(req.cfop) \in {txt_5101, txt_6101}) =>
               out.cclastrib.codigo \in {txt_VDA_PROPRIA_INTRA, txt_VDA_PROPRIA_INTER}

C19_Witness ==
    /\ out.op = "classify"
    /\ OwnProductionExample
    /\ out.cclastrib.codigo = txt_VDA_PROPRIA_INTRA
    /\ out.confianca = 80
    /\ Len(sources.cclastrib) > 0

\* the per-tax transition entry of the justification trail
TransitionEntry(regra, year, rate, fonte) ==
    [regra |-> regra, dados |-> [ano |-> year, percentual |-> rate], fonte |-> fonte]

\* C21: for each tax the transition rate applied is the percentage of the
\* first schedule row, in table order, of the emission year, and 0 when no
\* row has that year; in both cases the justification trail holds the
\* per-tax transition entry stating the percentage applied.
C21_TransitionRate ==
    out.op = "classify" =>
        LET y   == YearOf(req.data_emissao)
            ibs == TransitionRate(sources.transicao_ibs, y, "percentual_ibs")
            cbs == TransitionRate(sources.transicao_cbs, y, "percentual_cbs")
        IN  /\ out.cbs = cbs
            /\ ~FourConditions => out.ibs = ibs
            /\ \E i \in DOMAIN out.fundamentos_gerais :
                   out.fundamentos_gerais[i] =
                       TransitionEntry("TRANSICAO IBS", y, ibs, "transicao_ibs.csv")
            /\ \E i \in DOMAIN out.fundamentos_gerais :
                   out.fundamentos_gerais[i] =
                       TransitionEntry("TRANSICAO CBS", y, cbs, "transicao_cbs.csv")

C21_Witness ==
    /\ out.op = "classify"
    /\ sources.transicao_cbs # <<>>
    /\ \A i \in DOMAIN sources.transicao_cbs :
           Strip(GetOr(sources.transicao_cbs[i], "ano")) # IntToStr(YearOf(req.data_emissao))
    /\ out.cbs = 0
    /\ \E i \in DOMAIN out.fundamentos_gerais :
           out.fundamentos_gerais[i] =
               TransitionEntry("TRANSICAO CBS", YearOf(req.data_emissao), 0,
                               "transicao_cbs.csv")

(***************************************************************************)
(* The operation-type resolver applied to one code against one descriptor  *)
(* table.                                                                  *)
(***************************************************************************)
MaxCfopRows == 2

txt_1101 == <<"1", "1", "0", "1">>
txt_5401 == <<"5", "4", "0", "1">>
txt_7101 == <<"7", "1", "0", "1">>
txt_5102 == <<"5", "1", "0", "2">>

desc_industrializado ==
    <<"V", "E", "N", "D", "A", " ", "D", "E", " ", "P", "R", "O", "D", "U",
      "T", "O", " ", "I", "N", "D", "U", "S", "T", "R", "I", "A", "L", "I",
      "Z", "A", "D", "O">>
desc_propria ==
    <<"P", "r", "o", "d", "u", "[c,]", "[a~]", "o", " ", "p", "r", "[o']",
      "p", "r", "i", "a">>

\* rows of cfop.csv, under the header spellings the code accepts
CfopDescRows ==
    {[CFOP |-> txt_5101, DESCRICAO_CFOP |-> desc_5101],
     [CFOP |-> txt_6102, DESCRICAO_CFOP |-> desc_6102],
     [CFOP |-> txt_1101, DESCRICAO_CFOP |-> desc_5101],
     [cfop |-> txt_7101, descricao_cfop |-> desc_industrializado],
     ("CFOP" :> txt_5401) @@ ("DESCRI[C,][A~]O_CFOP" :> desc_propria),
     [CFOP |-> txt_5101, DESCRICAO_CFOP |-> <<>>]}

CfopInputs ==
    {txt_5101, <<" ", "5", "1", "0", "1">>, txt_6102, txt_1101, txt_7101, txt_5401,
     txt_5102, <<>>}

InitCfop ==
    /\ \E rows \in SeqsUpTo(CfopDescRows, MaxCfopRows) :
           sources = [EmptySources EXCEPT !.cfop_map = build_cfop_index(rows)]
    /\ \E code \in CfopInputs : req = [op |-> "detect", cfop |-> code]
    /\ out = [op |-> "none"]
    /\ NoAgent

\* classify's first steps: the code normalised, its row, the two detectors
Detect ==
    /\ req.op = "detect"
    /\ out.op = "none"
    /\ LET cfop_code == norm_code(req.cfop)
           cfop_row  == CfopGet(sources.cfop_map, cfop_code)
       IN  out' = [op |-> "detect",
                   produzido_emitente |-> detect_producao_emitente(cfop_code, cfop_row),
                   cfop_venda_industrializado |->
                       detect_venda_industrializada(cfop_code, cfop_row)]
    /\ UNCHANGED <<sources, req>>
    /\ UNCHANGED agentVars

NextCfop == Detect

SpecCfop == InitCfop /\ [][NextCfop]_vars

\* a description without its accents and in lower case
PlainLower(s) == [i \in DOMAIN s |-> LowerChar(AccentBase(s[i]))]

\* the description of a descriptor row, under whichever header it has
DescOf(r) ==
    LET keys == <<"DESCRICAO_CFOP", "DESCRI[C,][A~]O_CFOP", "descricao_cfop">>
        set  == {i \in DOMAIN keys : Truthy(Get(r, keys[i]))}
    IN  IF set = {} THEN <<>>
        ELSE r[keys[CHOOSE i \in set : \A j \in set : i <= j]]

HasKeyword(r, keywords) ==
    \E k \in keywords : Contains(PlainLower(DescOf(r)), k)

\* C20: the resolver is three-valued: a code without a descriptor row gives
\* unknown for both detectors; a code with a row whose leading digit is not
\* 5, 6 or 7 gives false for both; a code with a row and leading digit 5, 6
\* or 7 gives, for each detector, true exactly when the description without
\* accents and in lower case contains one of its keyword phrases, and false
\* otherwise.
C20_ThreeValued ==
    out.op = "detect" =>
        LET code == Upper(Strip(req.cfop))
        IN  IF code \notin DOMAIN sources.cfop_map
            THEN /\ out.produzido_emitente = "None"
                 /\ out.cfop_venda_industrializado = "None"
            ELSE IF code[1] \notin {"5", "6", "7"}
            THEN /\ out.produzido_emitente = "False"
                 /\ out.cfop_venda_industrializado = "False"
            ELSE /\ out.produzido_emitente =
                        (IF HasKeyword(sources.cfop_map[code], KeywordsProducao)
                         THEN "True" ELSE "False")
                 /\ out.cfop_venda_industrializado =
                        (IF HasKeyword(sources.cfop_map[code], KeywordsIndustrializada)
                         THEN "True" ELSE "False")

C20_Witness ==
    /\ out.op = "detect"
    /\ Upper(Strip(req.cfop)) \in DOMAIN sources.cfop_map
    /\ DescOf(sources.cfop_map[Upper(Strip(req.cfop))]) = desc_propria
    /\ out.produzido_emitente = "True"
    /\ out.cfop_venda_industrializado = "False"

(***************************************************************************)
(* classify against degraded snapshots: every reference table is either    *)
(* empty or populated, and the request may name a product or an            *)
(* operation-type code that no table holds.                                *)
(***************************************************************************)
txt_date_ini == <<"0", "1", "/", "0", "4", "/", "2", "0", "2", "2">>
txt_date_fim == <<"3", "1", "/", "1", "2", "/", "9", "9", "9", "9">>

\* rows of the official catalogue (Tabela_NCM_Vigente): the code that no
\* product table holds is listed with the name of a harmful-goods category
\* as its description
OficialRows ==
    <<("C[o']digo" :> <<"1", "2", "3", "4", ".", "5", "6", ".", "7", "9">>)
          @@ ("Descri[c,][a~]o" :> cat_BEBIDAS)
          @@ ("Data In[i']cio" :> txt_date_ini) @@ ("Data Fim" :> txt_date_fim),
      ("C[o']digo" :> ncm_A_dots) @@ ("Descri[c,][a~]o" :> cat_ESSENCIAL)
          @@ ("Data In[i']cio" :> txt_date_ini) @@ ("Data Fim" :> txt_date_fim)>>

GapsRuleRows == <<Rule(cod_010001, txt_SN, <<>>, <<>>, <<>>, <<>>, <<>>)>>

GapsMapRows ==
    CstMapRows \o
    <<[cclastrib_codigo |-> cod_010001, cst_ibs_cbs |-> <<"0", "1", "0">>,
       cclass_trib |-> cod_010001, descricao |-> txt_SP]>>

\* a request whose registry identifiers are supplied and active
GapsRequest ==
    [BaseRequest EXCEPT !.cadastro_suframa_emitente = txt_suframa_id,
                        !.cadastro_suframa_emitente_ativo = "True",
                        !.cadastro_suframa_destinatario = txt_suframa_id,
                        !.cadastro_suframa_destinatario_ativo = "True"]

InitGaps ==
    /\ \E cfm, rules, ma, ex, of, ti, tc, cm, zl \in BOOLEAN :
           sources =
               [cfop_map        |-> IF cfm THEN build_cfop_index(CfopRows) ELSE <<>>,
                cclastrib       |-> IF rules THEN GapsRuleRows ELSE <<>>,
                ncm_master      |-> IF ma THEN <<[ncm |-> ncm_A_dots,
                                                  categoria |-> cat_bebidas]>>
                                    ELSE <<>>,
                ncm_excecoes    |-> IF ex THEN <<[ncm |-> ncm_A,
                                                  categoria |-> cat_ESSENCIAL]>>
                                    ELSE <<>>,
                ncm_oficial     |-> IF of THEN OficialRows ELSE <<>>,
                transicao_ibs   |-> IF ti THEN TransicaoIbs ELSE <<>>,
                transicao_cbs   |-> IF tc THEN TransicaoCbs ELSE <<>>,
                cst_ibs_cbs_map |-> IF cm THEN GapsMapRows ELSE <<>>,
                ncm_beneficiados_zfm |-> IF zl THEN <<[ncm |-> ncm_A_10]>> ELSE <<>>]
    /\ \E cf \in {txt_5101, txt_7101}, n \in {ncm_A_dots, ncm_B},
          d \in {20261231, 20270101}, zone \in BOOLEAN, gov \in BOOLEAN :
           req = [GapsRequest EXCEPT
                      !.cfop = cf, !.ncm = n, !.data_emissao = d,
                      !.produzido_zfm = zone, !.emitente_zfm = zone,
                      !.destinatario_zfm = gov, !.compra_gov = gov]
    /\ out = [op |-> "none"]
    /\ NoAgent

NextGaps == Classify

SpecGaps == InitGaps /\ [][NextGaps]_vars

\* the reference data lacks something the request asks for: the
\* operation-type descriptor, a schedule row of the year, a matching rule,
\* a tax-treatment row of the selected code, or the product
ReferenceGap ==
    \/ ~IsRow(CfopGet(sources.cfop_map, norm_code(req.cfop)))
    \/ ~year_factor_transicao(sources.transicao_ibs, YearOf(req.data_emissao),
                              "percentual_ibs").ok
    \/ ~year_factor_transicao(sources.transicao_cbs, YearOf(req.data_emissao),
                              "percentual_cbs").ok
    \/ out.candidatos = <<>>
    \/ out.cst_ibs_cbs = txt_cst000 /\ MapHits(out.cclastrib.codigo) = {}
    \/ out.row = NoRow

\* C22: whatever tables are empty or lack the requested key, classify
\* returns a result with the conservative defaults (rate 0 for a tax whose
\* schedule has no row of the year, unknown operation-type flags for a code
\* without descriptor, the sentinel code when no rule matches), and every
\* such gap is expressed by at least one pending item or alert.
C22_GapsSurfaced ==
    out.op = "classify" =>
        /\ (~IsRow(CfopGet(sources.cfop_map, norm_code(req.cfop)))
               => /\ out.produzido_emitente = "None"
                  /\ out.cfop_venda_industrializado = "None")
        /\ (sources.transicao_cbs = <<>> => out.cbs = 0)
        /\ (sources.transicao_ibs = <<>> => out.ibs = 0)
        /\ (out.candidatos = <<>> /\ out.produzido_emitente # "True" /\ ~out.beneficio_zfm_ibs_zero
               => out.cclastrib.codigo = txt_REGRA_GERAL)
        /\ (ReferenceGap => out.pendencias # <<>> \/ out.alertas # <<>>)

\* C23: the selective-tax flag of the result is true exactly when the
\* emission year is 2027 or later and the resolved category, trimmed and
\* upper-cased, is one of NOCIVO, SELETIVO, BEBIDAS, CIGARROS; it is false
\* for every emission date before 2027 and for every request without a
\* resolved category.
C23_SelectiveTaxFlag ==
    out.op = "classify" =>
        LET year    == req.data_emissao \div 10000
            harmful == /\ out.categoria # NoneS
                       /\ Upper(Strip(out.categoria)) \in
                              {<<"N", "O", "C", "I", "V", "O">>,
                               <<"S", "E", "L", "E", "T", "I", "V", "O">>,
                               cat_BEBIDAS,
                               <<"C", "I", "G", "A", "R", "R", "O", "S">>}
        IN  /\ out.flags.aplicar_is = (year >= 2027 /\ harmful)
            /\ (year < 2027 => ~out.flags.aplicar_is)
            /\ (out.categoria = NoneS => ~out.flags.aplicar_is)

\* a product of the master table in the category "bebidas ", sold on the
\* first day of 2027
C23_Witness ==
    /\ out.op = "classify"
    /\ out.row.tbl = "ncm_master"
    /\ out.categoria = Strip(cat_bebidas)
    /\ req.data_emissao = 20270101
    /\ out.flags.aplicar_is

\* the result of the same request against the snapshot in service with its
\* official catalogue emptied, or filled when it is empty
OtherCatalogue ==
    classify([sources EXCEPT !.ncm_oficial = IF @ = <<>> THEN OficialRows ELSE <<>>], req)

\* the part of a result that is not justification or pending text
Outcome(r) ==
    [codigo |-> r.cclastrib.codigo, ibs |-> r.ibs, cbs |-> r.cbs,
     cst_ibs_cbs |-> r.cst_ibs_cbs, cclass_trib |-> r.cclass_trib,
     confianca |-> r.confianca, beneficio_zfm_ibs_zero |-> r.beneficio_zfm_ibs_zero,
     aplicar_is |-> r.flags.aplicar_is, categoria |-> r.categoria,
     alertas |-> r.alertas]

\* C24: for a product that neither the exception nor the master table
\* matches, the result against a snapshot whose official catalogue lists
\* the code and the result against the same snapshot without the catalogue
\* have the same classification code, IBS and CBS rates, tax-treatment
\* pair, confidence, zone-benefit flag, selective-tax flag and category,
\* the category being none: the catalogue's description gives no category.
C24_CatalogueOnlyText ==
    (out.op = "classify" /\ out.row = NoRow) =>
        /\ Outcome(out) = Outcome(OtherCatalogue)
        /\ out.categoria = NoneS
        /\ ~out.flags.aplicar_is

\* the catalogue lists the code under the description BEBIDAS, the sale is
\* of 2027, and the pending text is the only difference
C24_Witness ==
    /\ out.op = "classify"
    /\ out.row = NoRow
    /\ out.row_oficial # 0
    /\ OficialDesc(sources.ncm_oficial[out.row_oficial]) = cat_BEBIDAS
    /\ req.data_emissao = 20270101
    /\ out.pendencias # OtherCatalogue.pendencias
    /\ out.categoria = NoneS

\* the place of a justification entry in the list of entry kinds:
\* operation-type, zone residency of issuer and of recipient, registry of
\* issuer and of recipient, category or catalogue fallback, classification
\* selection, tax treatment, transition IBS and CBS, zone benefit,
\* government purchase; 0 for an entry of none of these kinds
ListedKind(regra) ==
    IF regra \in {"CFOP", "CFOP INDUSTRIALIZADO"} THEN 1
    ELSE IF regra = "ZFM EMITENTE" THEN 2
    ELSE IF regra = "ZFM DESTINATARIO" THEN 3
    ELSE IF regra = "SUFRAMA EMITENTE" THEN 4
    ELSE IF regra = "SUFRAMA DESTINATARIO" THEN 5
    ELSE IF regra \in {"CATEGORIA NCM", "NCM OFICIAL (vigencia confirmada)"} THEN 6
    ELSE IF regra = "cClasTrib" THEN 7
    ELSE IF regra = "CST IBS/CBS" THEN 8
    ELSE IF regra = "TRANSICAO IBS" THEN 9
    ELSE IF regra = "TRANSICAO CBS" THEN 10
    ELSE IF regra \in {"NCM BENEFICIO ZFM", "LC 214/2025 (Capitulo ZFM, arts. 439-446)",
                       "cClasTrib ZFM"} THEN 11
    ELSE IF regra = "COMPRA GOVERNAMENTAL" THEN 12
    ELSE 0

\* C27 as stated: the trail consists of entries of the listed kinds, and no
\* entry stands before an entry of a kind that precedes it in the list;
\* the zone-benefit entries, the product's zone-listing entry among them,
\* come after the transition entries.
C27_TrailOrder ==
    out.op = "classify" =>
        LET t == out.fundamentos_gerais
        IN  /\ \A i \in DOMAIN t : ListedKind(t[i].regra) # 0
            /\ \A i, j \in DOMAIN t :
                   i < j => ListedKind(t[i].regra) <= ListedKind(t[j].regra)

\* the order in which classify appends its entries
TrailOrder ==
    <<"CFOP", "CFOP INDUSTRIALIZADO", "ZFM EMITENTE", "ZFM DESTINATARIO",
      "SUFRAMA EMITENTE", "SUFRAMA DESTINATARIO", "CATEGORIA NCM",
      "NCM OFICIAL (vigencia confirmada)", "NCM BENEFICIO ZFM", "cClasTrib",
      "CST IBS/CBS", "ANO DE REFERENCIA", "TRANSICAO IBS", "TRANSICAO CBS",
      "LC 214/2025 (Capitulo ZFM, arts. 439-446)", "cClasTrib ZFM",
      "COMPRA GOVERNAMENTAL">>

Place(regra) ==
    IF \E k \in DOMAIN TrailOrder : TrailOrder[k] = regra
    THEN CHOOSE k \in DOMAIN TrailOrder : TrailOrder[k] = regra
    ELSE 0

\* C27, amended: the trail is ordered as operation-type entries, zone
\* residency (issuer, recipient), registry (issuer, recipient), category
\* entry or catalogue fallback entry, the product's zone-listing entry,
\* classification selection, tax treatment, reference year, transition IBS
\* then CBS, the two zone-benefit entries, government purchase; each entry
\* occurs at most once, and the four entries from classification selection
\* to the reference year and the two transition entries are always there.
C27_TrailOrderAmended ==
    out.op = "classify" =>
        LET t == out.fundamentos_gerais
        IN  /\ \A i \in DOMAIN t : Place(t[i].regra) # 0
            /\ \A i, j \in DOMAIN t :
                   i < j => Place(t[i].regra) < Place(t[j].regra)
            /\ \A k \in 10..14 : \E i \in DOMAIN t : t[i].regra = TrailOrder[k]
            /\ \A i \in DOMAIN t :
                   t[i].regra = "NCM BENEFICIO ZFM" => t[i + 1].regra = "cClasTrib"

\* a trail that holds an entry of every kind
C27_Witness ==
    /\ out.op = "classify"
    /\ {out.fundamentos_gerais[i].regra : i \in DOMAIN out.fundamentos_gerais}
           = Range(TrailOrder) \ {"CFOP INDUSTRIALIZADO", "NCM OFICIAL (vigencia confirmada)"}

(***************************************************************************)
(* The request cache (app/cache.py).  _data is a function from keys to     *)
(* entries [value, expires_at]; `now` and expires_at count units of the    *)
(* time-to-live.                                                           *)
(***************************************************************************)
\* str(p) of a text or of None
StrOf(p) == IF p = NoneS THEN <<"N", "o", "n", "e">> ELSE p

\* sep.join(parts)
RECURSIVE Join(_, _)
Join(parts, sep) ==
    IF parts = <<>> THEN <<>>
    ELSE IF Len(parts) = 1 THEN parts[1]
    ELSE parts[1] \o sep \o Join(Tail(parts), sep)

make_cache_key(parts) ==
    Join([i \in DOMAIN parts |-> Upper(Strip(StrOf(parts[i])))], <<"|">>)

\* the time-to-live the agent gives its cache, one unit of `now`
default_ttl_seconds == 1

\* Python None where a response is expected
NoneResp == [is_none |-> TRUE]

EmptyCache == <<>>

\* TTLCache.get: the value returned and the _data it leaves behind
cache_get(data, key, t) ==
    IF key \notin DOMAIN data THEN [value |-> NoneResp, data |-> data]
    ELSE IF data[key].expires_at < t
         THEN [value |-> NoneResp, data |-> [k \in DOMAIN data \ {key} |-> data[k]]]
         ELSE [value |-> data[key].value, data |-> data]

\* TTLCache.set with the default time-to-live
cache_set(data, key, value, t) ==
    [k \in DOMAIN data \cup {key} |->
        IF k = key THEN [value |-> value, expires_at |-> t + default_ttl_seconds]
        ELSE data[k]]

\* TTLCache.clear
cache_clear(data) == EmptyCache

(***************************************************************************)
(* CClastribAgent.handle (app/agent.py).  Money is an optional number      *)
(* [ok, v]: the requested item value counts thousandths, rounded amounts   *)
(* count hundredths.  A percentage is its rate, in units of 100/RateScale. *)
(***************************************************************************)
DateOf(y, m, d) == y * 10000 + m * 100 + d

\* date.today()
today == DateOf(2026, 11, 1)

RECURSIVE PadLeft(_, _)
PadLeft(s, n) == IF Len(s) >= n THEN s ELSE PadLeft(<<"0">> \o s, n)

\* date.isoformat()
isoformat(d) ==
    PadLeft(IntToStr(d \div 10000), 4) \o <<"-">>
    \o PadLeft(IntToStr((d \div 100) % 100), 2) \o <<"-">>
    \o PadLeft(IntToStr(d % 100), 2)

NextDay(d) ==
    LET y == d \div 10000
        m == (d \div 100) % 100
        dd == d % 100
    IN  IF dd < DaysInMonth(y, m) THEN d + 1
        ELSE IF m < 12 THEN DateOf(y, m + 1, 1)
        ELSE DateOf(y + 1, 1, 1)

\* d + timedelta(days=n)
RECURSIVE AddDays(_, _)
AddDays(d, n) == IF n = 0 THEN d ELSE AddDays(NextDay(d), n - 1)

\* n / d rounded to the nearest integer, ties to even, for n >= 0
RoundHalfEven(n, d) ==
    LET q == n \div d
        r == n % d
    IN  IF 2 * r > d \/ (2 * r = d /\ q % 2 = 1) THEN q + 1 ELSE q

\* round_money of an item value: thousandths to hundredths
round_money(v) == IF ~v.ok THEN NoneNum ELSE Num(RoundHalfEven(v.v, 10))

\* (text or "").strip().upper() == "S"
IsS(text) == Upper(Strip(OrEmpty(text))) = <<"S">>

\* parse_sn: an optional S/N text as an optional boolean
parse_sn(value) ==
    IF value = NoneS THEN "None"
    ELSE IF Upper(Strip(value)) = <<"S">> THEN "True" ELSE "False"

\* the locals handle derives from the request before it builds the key
HandleLocals(r) ==
    [data_emissao  |-> IF r.ano_emissao # 0 THEN DateOf(r.ano_emissao, 1, 1) ELSE today,
     ncm_digits    |-> norm_ncm(r.ncm),
     produzido_zfm    |-> IsS(r.produzido_zfm),
     emitente_zfm     |-> IsS(r.emitente_zona_franca_manaus),
     destinatario_zfm |-> IsS(r.destinatario_zona_franca_manaus),
     cadastro_suframa_emitente     |-> Strip(OrEmpty(r.cadastro_suframa_emitente)),
     cadastro_suframa_destinatario |-> Strip(OrEmpty(r.cadastro_suframa_destinatario)),
     cadastro_suframa_emitente_ativo     |-> parse_sn(r.cadastro_suframa_emitente_ativo),
     cadastro_suframa_destinatario_ativo |-> parse_sn(r.cadastro_suframa_destinatario_ativo)]

\* f"{tag}_{'P' if cadastro else 'NP'}_{'AT' if ativo else 'IN' if ativo is False else 'NA'}"
SuframaPart(tag, cadastro, ativo) ==
    tag \o <<"_">> \o (IF cadastro # <<>> THEN <<"P">> ELSE <<"N", "P">>) \o <<"_">>
    \o (IF ativo = "True" THEN <<"A", "T">>
        ELSE IF ativo = "False" THEN <<"I", "N">> ELSE <<"N", "A">>)

\* the cache key handle builds for a request
cache_key(r) ==
    LET l == HandleLocals(r)
    IN  make_cache_key(
            <<r.regime_fiscal_emitente, r.cfop, r.uf_emitente, r.uf_destinatario,
              r.cst_icms, l.ncm_digits, isoformat(l.data_emissao),
              IF r.compra_governo = "True" THEN <<"G", "O", "V">>
                                           ELSE <<"N", "O", "G", "O", "V">>,
              IF r.ind_doacao = "True" THEN <<"D", "O", "A">>
                                       ELSE <<"N", "O", "D", "O", "A">>,
              IF l.produzido_zfm THEN <<"Z", "F", "M">> ELSE <<"N", "O", "Z", "F", "M">>,
              IF l.emitente_zfm THEN <<"E", "Z", "F", "M">>
                                ELSE <<"N", "O", "E", "Z", "F", "M">>,
              IF l.destinatario_zfm THEN <<"D", "Z", "F", "M">>
                                    ELSE <<"N", "O", "D", "Z", "F", "M">>,
              SuframaPart(<<"S", "U", "F", "E">>, l.cadastro_suframa_emitente,
                          l.cadastro_suframa_emitente_ativo),
              SuframaPart(<<"S", "U", "F", "D">>, l.cadastro_suframa_destinatario,
                          l.cadastro_suframa_destinatario_ativo)>>)

\* the arguments handle passes to classify
ClassifyArgs(r) ==
    LET l == HandleLocals(r)
    IN  [regime |-> r.regime_fiscal_emitente, cfop |-> r.cfop,
         uf_emit |-> r.uf_emitente, uf_dest |-> r.uf_destinatario,
         cst_icms |-> r.cst_icms, ncm |-> r.ncm, data_emissao |-> l.data_emissao,
         compra_gov |-> (r.compra_governo = "True"),
         ind_doacao |-> (r.ind_doacao = "True"),
         produzido_zfm |-> l.produzido_zfm, emitente_zfm |-> l.emitente_zfm,
         destinatario_zfm |-> l.destinatario_zfm,
         cadastro_suframa_emitente |-> l.cadastro_suframa_emitente,
         cadastro_suframa_emitente_ativo |-> l.cadastro_suframa_emitente_ativo,
         cadastro_suframa_destinatario |-> l.cadastro_suframa_destinatario,
         cadastro_suframa_destinatario_ativo |-> l.cadastro_suframa_destinatario_ativo,
         cod_municipio_destinatario |-> r.cod_municipio_destinatario]

\* a + b of two amounts, each of which may be None (0 stands in for None)
AddOpt(a, b) == (IF a.ok THEN a.v ELSE 0) + (IF b.ok THEN b.v ELSE 0)

\* the ClassifyResponse handle builds from the request and classify's result
BuildResponse(r, result) ==
    LET l     == HandleLocals(r)
        vbc   == round_money(r.valor_item)
        p_ibs == result.ibs
        p_cbs == result.cbs
        v_ibs == IF vbc.ok THEN Num(RoundHalfEven(vbc.v * p_ibs, RateScale)) ELSE NoneNum
        v_cbs == IF vbc.ok THEN Num(RoundHalfEven(vbc.v * p_cbs, RateScale)) ELSE NoneNum
        total_debito  == AddOpt(v_ibs, v_cbs)
        total_credito == 0
        ch    == Strip(OrEmpty(r.dfe_referenciado_chave))
        isel  == IF result.flags.aplicar_is
                 THEN [CSTIS |-> "cstis000", cClassTribIS |-> "000001", vBCIS |-> vbc,
                       pIS |-> 5, pISEspec |-> 5, uTrib |-> "UNIDAD", qTrib |-> 1,
                       vIS |-> IF vbc.ok THEN Num(RoundHalfEven(vbc.v * 5, 100))
                                         ELSE NoneNum]
                 ELSE NoneResp
        v_is  == IF isel # NoneResp THEN isel.vIS ELSE NoneNum
        v_nf_tot == IF vbc.ok THEN Num(vbc.v + AddOpt(v_ibs, v_cbs) + AddOpt(v_is, NoneNum))
                    ELSE NoneNum
    IN  [cclastrib   |-> [codigo |-> result.cclastrib.codigo,
                          descricao |-> result.cclastrib.descricao,
                          fundamento |-> Fund("LC 214/2025", "classificacao operacional",
                                              "cclastrib.csv")],
         ibs         |-> [aliquota |-> result.ibs,
                          fundamento |-> Fund("LC 214/2025", "aliquota IBS",
                                              "transicao_ibs.csv / ncm_master.csv")],
         cbs         |-> [aliquota |-> result.cbs,
                          fundamento |-> Fund("LC 214/2025", "aliquota CBS",
                                              "transicao_cbs.csv / ncm_master.csv")],
         cst_ibs_cbs |-> result.cst_ibs_cbs,
         cclass_trib |-> result.cclass_trib,
         cfop_venda_industrializado |-> result.cfop_venda_industrializado,
         emitente_zfm     |-> result.emitente_zfm,
         destinatario_zfm |-> result.destinatario_zfm,
         cadastro_suframa_emitente |-> result.cadastro_suframa_emitente,
         cadastro_suframa_emitente_ativo |-> result.cadastro_suframa_emitente_ativo,
         cadastro_suframa_destinatario |-> result.cadastro_suframa_destinatario,
         cadastro_suframa_destinatario_ativo |-> result.cadastro_suframa_destinatario_ativo,
         produzido_emitente     |-> result.produzido_emitente,
         beneficio_zfm_ibs_zero |-> result.beneficio_zfm_ibs_zero,
         ncm_beneficiado_zfm    |-> result.ncm_beneficiado_zfm,
         total_debito  |-> total_debito,
         total_credito |-> total_credito,
         confianca     |-> result.confianca,
         alertas       |-> result.alertas,
         pendencias    |-> result.pendencias,
         xml |->
             [ide |-> [dPrevEntrega |-> isoformat(AddDays(l.data_emissao, 10)),
                       cMunFGIBS    |-> r.cod_municipio_fg_ibs,
                       tpNFDebito   |-> IF total_debito = 0 \/ result.beneficio_zfm_ibs_zero
                                        THEN "tdNenhum" ELSE "tdIntegral",
                       tpNFCredito  |-> IF total_credito = 0 THEN "tcNenhum"
                                        ELSE "tcIntegral",
                       gCompraGov   |-> IF r.compra_governo = "True"
                                        THEN [tpEnteGov |-> "tcgEstados", pRedutor |-> 5,
                                              tpOperGov |-> "togFornecimento"]
                                        ELSE NoneResp,
                       gPagAntecipado |-> r.refs_pag_antecipado],
              produto |-> [indBemMovelUsado |-> "tieNenhum",
                           vItem |-> round_money(r.valor_item),
                           DFeReferenciado |->
                               IF ch # <<>>
                               THEN [chaveAcesso |-> ch,
                                     nItem |-> IF r.dfe_referenciado_nitem # 0
                                               THEN r.dfe_referenciado_nitem ELSE 1]
                               ELSE NoneResp],
              imposto |-> [isel |-> isel,
                           ibscbs |-> [CST |-> result.cst_ibs_cbs,
                                       cClassTrib |-> result.cclass_trib,
                                       indDoacao |-> IF r.ind_doacao = "True" THEN "tieSim"
                                                     ELSE "tieNao",
                                       vBC |-> vbc,
                                       pIBSUF |-> p_ibs, vIBSUF |-> v_ibs, vIBS |-> v_ibs,
                                       pCBS |-> p_cbs, vCBS |-> v_cbs]],
              totais |-> [isTot_vIS |-> v_is, vBCIBSCBS |-> vbc, vIBS |-> v_ibs,
                          vCBS |-> v_cbs, vNFTot |-> v_nf_tot]],
         fundamentos_gerais |-> result.fundamentos_gerais]

(***************************************************************************)
(* Loading the tables (rules.read_csv_semicolon, rules.load_sources).  A   *)
(* file of the data directory is [st, rows]: st is "ok", "missing" or      *)
(* "undecodable" (neither utf-8-sig nor cp1252 decodes it), rows are the   *)
(* records csv.DictReader yields.                                          *)
(***************************************************************************)
\* the files load_sources reads, statement by statement: the operation-type
\* table, the zone-benefit list, then the arguments of DataSources(...)
LoadSteps ==
    <<<<"cfop.csv">>,
      <<"ncm_beneficiados_zfm.csv">>,
      <<"ncm_master.csv", "ncm_excecoes.csv", "Tabela_NCM_Vigente_20251227.csv",
        "ibs_aliquotas.csv", "cbs_aliquotas.csv", "transicao_ibs.csv",
        "transicao_cbs.csv", "cclastrib.csv", "cst_ibs_cbs_map.csv">>>>

FileNames == UNION {Range(LoadSteps[i]) : i \in DOMAIN LoadSteps}

OkFile(rows) == [st |-> "ok", rows |-> rows]

MissingFile == [st |-> "missing", rows |-> <<>>]

UndecodableFile == [st |-> "undecodable", rows |-> <<>>]

\* the cells of a row, stripped
StripRow(r) == [k \in DOMAIN r |-> Strip(r[k])]

\* read_csv_semicolon: [] for a missing path, the last UnicodeDecodeError
\* raised when no encoding decodes the file, the stripped rows otherwise
read_csv_semicolon(file) ==
    IF file.st = "missing" THEN [raised |-> FALSE, rows |-> <<>>]
    ELSE IF file.st = "undecodable" THEN [raised |-> TRUE, rows |-> <<>>]
    ELSE [raised |-> FALSE, rows |-> [i \in DOMAIN file.rows |-> StripRow(file.rows[i])]]

\* the DataSources load_sources constructs from the rows it has read
DataSources(loaded) ==
    [cfop_map             |-> build_cfop_index(loaded["cfop.csv"]),
     ncm_beneficiados_zfm |-> loaded["ncm_beneficiados_zfm.csv"],
     ncm_master           |-> loaded["ncm_master.csv"],
     ncm_excecoes         |-> loaded["ncm_excecoes.csv"],
     ncm_oficial          |-> loaded["Tabela_NCM_Vigente_20251227.csv"],
     ibs_aliquotas        |-> loaded["ibs_aliquotas.csv"],
     cbs_aliquotas        |-> loaded["cbs_aliquotas.csv"],
     transicao_ibs        |-> loaded["transicao_ibs.csv"],
     transicao_cbs        |-> loaded["transicao_cbs.csv"],
     cclastrib            |-> loaded["cclastrib.csv"],
     cst_ibs_cbs_map      |-> loaded["cst_ibs_cbs_map.csv"]]

\* load_sources over a directory none of whose files fails to decode
load_sources(dir) == DataSources([f \in FileNames |-> read_csv_semicolon(dir[f]).rows])

\* the tables classify consults before it matches the rules, and from there on
TablesBeforeRules ==
    {"cfop_map", "ncm_beneficiados_zfm", "ncm_master", "ncm_excecoes", "ncm_oficial"}

TablesFromRules ==
    {"cclastrib", "cst_ibs_cbs_map", "transicao_ibs", "transicao_cbs"}

\* a read of some tables of one DataSources object: which object each came from
ReadTables(ref, names) == [n \in names |-> ref]

\* the tables a call has read, as the DataSources classify saw
Seen(objs, view) == [n \in DOMAIN view |-> objs[view[n]][n]]

\* a handle call that looks self._sources up again at every table it reads
ServingSnapshot_Reread(call, current) == current

\* the object a handle call reads its tables from: the one classify was
\* given when the call evaluated self._sources
ServingSnapshot(call, current) == call.snap

(***************************************************************************)
(* The agent in service: worker threads run handle, the /reload endpoint   *)
(* runs reload_sources and an operator edits the data directory.  A        *)
(* thread switch can fall between any two steps.  DataSources objects     *)
(* live in `heap`; here `sources` (self._sources) and the `sources`        *)
(* parameter of classify are references into it.  The clock stands still:  *)
(* every entry of the cache is within its time-to-live.                    *)
(***************************************************************************)
\* the worker threads; with the reloader, one worker already gives every
\* interleaving of a handle call with a reload
Threads == {"w1"}

MaxCalls == 2

MaxReloads == 1

\* the requests the workers receive
AgentRequest ==
    [ano_emissao |-> 2026, regime_fiscal_emitente |-> txt_SN, cfop |-> txt_5101,
     uf_emitente |-> txt_AM, uf_destinatario |-> txt_SP, cst_icms |-> txt_00,
     ncm |-> ncm_A_dots, valor_item |-> Num(100000),
     cod_municipio_fg_ibs |-> 0, cod_municipio_destinatario |-> 0,
     compra_governo |-> "False", ind_doacao |-> "False",
     produzido_zfm |-> NoneS, emitente_zona_franca_manaus |-> NoneS,
     destinatario_zona_franca_manaus |-> NoneS,
     cadastro_suframa_emitente |-> NoneS, cadastro_suframa_emitente_ativo |-> NoneS,
     cadastro_suframa_destinatario |-> NoneS,
     cadastro_suframa_destinatario_ativo |-> NoneS,
     refs_pag_antecipado |-> <<>>, dfe_referenciado_chave |-> <<>>,
     dfe_referenciado_nitem |-> 1]

AgentRequests ==
    {AgentRequest,
     [AgentRequest EXCEPT !.valor_item = Num(250505)],
     [AgentRequest EXCEPT !.ncm = ncm_B]}

\* the data directory the agent is constructed over
InitialDir ==
    [f \in FileNames |->
        IF f = "cfop.csv" THEN OkFile(CfopRows)
        ELSE IF f = "ncm_master.csv"
             THEN OkFile(<<[ncm |-> ncm_A_dots, categoria |-> cat_ESSENCIAL]>>)
        ELSE IF f = "transicao_ibs.csv" THEN OkFile(TransicaoIbs)
        ELSE IF f = "transicao_cbs.csv" THEN OkFile(TransicaoCbs)
        ELSE IF f = "cclastrib.csv"
             THEN OkFile(<<Rule(cod_000001, txt_STAR, <<>>, <<>>, <<>>, <<>>, <<>>)>>)
        ELSE IF f = "cst_ibs_cbs_map.csv" THEN OkFile(CstMapRows)
        ELSE OkFile(<<>>)]

\* what the operator may do to a file of the directory
DirEdits ==
    {<<"cclastrib.csv", MissingFile>>,
     <<"cclastrib.csv", UndecodableFile>>,
     <<"cclastrib.csv",
       OkFile(<<Rule(cod_010001, txt_SN, <<>>, <<>>, <<>>, <<>>, <<>>)>>)>>}

IdleCall ==
    [pc |-> "idle", req |-> NoneResp, key |-> <<>>, snap |-> 0, view |-> <<>>,
     resp |-> NoneResp, hit |-> FALSE]

IdleReload ==
    [pc |-> "idle", step |-> 0, loaded |-> <<>>, bad |-> {}, before |-> 0,
     result |-> "none"]

InitAgent ==
    /\ files = InitialDir
    /\ heap = <<load_sources(InitialDir)>>
    /\ sources = 1
    /\ cache = EmptyCache
    /\ now = 0
    /\ thr = [call |-> [t \in Threads |-> IdleCall], calls |-> 0]
    /\ rl = [run |-> IdleReload, reloads |-> 0]
    /\ req = [op |-> "serve"]
    /\ out = [op |-> "none"]

\* the operator replaces, removes or corrupts a table file
EditFile ==
    /\ \E e \in DirEdits :
           /\ files[e[1]] # e[2]
           /\ files' = [files EXCEPT ![e[1]] = e[2]]
    /\ UNCHANGED <<sources, req, out, cache, now, thr, rl, heap>>

\* handle, up to `if cached: return cached`
HandleLookup(t) ==
    /\ thr.call[t].pc = "idle"
    /\ thr.calls < MaxCalls
    /\ \E r \in AgentRequests :
           LET key    == cache_key(r)
               cached == cache_get(cache, key, now)
           IN  /\ cache' = cached.data
               /\ thr' = [calls |-> thr.calls + 1,
                          call  |-> [thr.call EXCEPT ![t] =
                             IF cached.value # NoneResp
                             THEN [IdleCall EXCEPT !.pc = "done", !.req = r, !.key = key,
                                                   !.resp = cached.value, !.hit = TRUE]
                             ELSE [IdleCall EXCEPT !.pc = "classify", !.req = r,
                                                   !.key = key]]]
    /\ UNCHANGED <<sources, req, out, files, now, rl, heap>>

\* classify(self._sources, ...) is entered and reads the tables it consults
\* before the rule match
HandleClassifyBegin(t) ==
    /\ thr.call[t].pc = "classify"
    /\ LET call == [thr.call[t] EXCEPT !.snap = sources]
       IN  thr' = [thr EXCEPT !.call[t] =
                      [call EXCEPT !.pc = "rules",
                                   !.view = ReadTables(ServingSnapshot(call, sources),
                                                       TablesBeforeRules)]]
    /\ UNCHANGED <<sources, req, out, files, cache, now, rl, heap>>

\* classify reads the remaining tables and returns; handle builds the response
HandleClassifyEnd(t) ==
    /\ thr.call[t].pc = "rules"
    /\ LET call == thr.call[t]
           view == call.view @@ ReadTables(ServingSnapshot(call, sources), TablesFromRules)
       IN  thr' = [thr EXCEPT !.call[t] =
                      [call EXCEPT !.pc = "set", !.view = view,
                                   !.resp = BuildResponse(call.req,
                                                classify(Seen(heap, view),
                                                         ClassifyArgs(call.req)))]]
    /\ UNCHANGED <<sources, req, out, files, cache, now, rl, heap>>

\* self._cache.set(cache_key, resp)
HandleSet(t) ==
    /\ thr.call[t].pc = "set"
    /\ cache' = cache_set(cache, thr.call[t].key, thr.call[t].resp, now)
    /\ thr' = [thr EXCEPT !.call[t].pc = "done"]
    /\ UNCHANGED <<sources, req, out, files, now, rl, heap>>

\* return resp / return cached
HandleReturn(t) ==
    /\ thr.call[t].pc = "done"
    /\ thr' = [thr EXCEPT !.call[t] = IdleCall]
    /\ UNCHANGED <<sources, req, out, files, cache, now, rl, heap>>

\* POST /reload enters agent.reload_sources
ReloadBegin ==
    /\ rl.run.pc = "idle"
    /\ rl.reloads < MaxReloads
    /\ rl' = [run |-> [IdleReload EXCEPT !.pc = "load", !.step = 1, !.before = sources],
              reloads |-> rl.reloads + 1]
    /\ UNCHANGED <<sources, req, out, files, cache, now, thr, heap>>

\* load_sources runs its next statement, reading that statement's files; a
\* decode error propagates to the endpoint, which answers HTTP 500
ReloadRead ==
    /\ rl.run.pc = "load"
    /\ rl.run.step <= Len(LoadSteps)
    /\ LET fs     == Range(LoadSteps[rl.run.step])
           read   == [f \in fs |-> read_csv_semicolon(files[f])]
           notok  == {f \in fs : files[f].st # "ok"}
       IN  rl' = [rl EXCEPT !.run =
                     IF \E f \in fs : read[f].raised
                     THEN [@ EXCEPT !.pc = "idle", !.result = "error",
                                    !.bad = @ \cup notok]
                     ELSE [@ EXCEPT !.step = @ + 1,
                                    !.loaded = @ @@ [f \in fs |-> read[f].rows],
                                    !.bad = @ \cup notok]]
    /\ UNCHANGED <<sources, req, out, files, cache, now, thr, heap>>

\* load_sources has run to its return
LoadComplete(run) == run.step > Len(LoadSteps)

\* self._sources = load_sources(...)
ReloadSwap ==
    /\ rl.run.pc = "load"
    /\ LoadComplete(rl.run)
    /\ heap' = Append(heap, DataSources(rl.run.loaded))
    /\ sources' = Len(heap) + 1
    /\ rl' = [rl EXCEPT !.run.pc = "clear"]
    /\ UNCHANGED <<req, out, files, cache, now, thr>>

\* self._cache.clear(); the endpoint answers {"ok": True}
ReloadClear ==
    /\ rl.run.pc = "clear"
    /\ cache' = cache_clear(cache)
    /\ rl' = [rl EXCEPT !.run.pc = "idle", !.run.result = "ok", !.run.loaded = <<>>]
    /\ UNCHANGED <<sources, req, out, files, now, thr, heap>>

NextAgent ==
    \/ EditFile
    \/ \E t \in Threads : HandleLookup(t)
    \/ \E t \in Threads : HandleClassifyBegin(t)
    \/ \E t \in Threads : HandleClassifyEnd(t)
    \/ \E t \in Threads : HandleSet(t)
    \/ \E t \in Threads : HandleReturn(t)
    \/ ReloadBegin
    \/ ReloadRead
    \/ ReloadSwap
    \/ ReloadClear

SpecAgent == InitAgent /\ [][NextAgent]_vars

\* the response a cache-free computation of a request gives against a snapshot
Fresh(snapshot, r) == BuildResponse(r, classify(snapshot, ClassifyArgs(r)))

\* C2: two requests that differ in a field that changes the result or the
\* response never share a cache key: while one snapshot is in service (no
\* reload has run) and within the time-to-live, a response answered from the
\* cache equals, field for field, the response a cache-free computation of
\* that request gives.
C2_CachedEqualsFresh ==
    \A t \in Threads :
        (thr.call[t].pc = "done" /\ thr.call[t].hit /\ rl.reloads = 0)
            => thr.call[t].resp = Fresh(heap[sources], thr.call[t].req)

\* C3: when a table is missing or cannot be parsed while reload runs, the
\* reload ends with a reported error and the old snapshot stays in service:
\* such a reload never reaches the assignment of self._sources.
C3_ReloadFailsOnBadTable ==
    rl.run.bad # {} =>
        /\ rl.run.pc \in {"load", "idle"}
        /\ (rl.run.pc = "idle" => rl.run.result = "error")
        /\ sources = rl.run.before

\* the fields of a completely constructed DataSources
TableNames == TablesBeforeRules \cup TablesFromRules \cup {"ibs_aliquotas", "cbs_aliquotas"}

\* C4: every handle call reads all its tables from exactly one DataSources
\* object, the one self._sources referred to when its classification began,
\* whatever reload does meanwhile; self._sources always refers to a
\* completely constructed object, keeps referring to the old one while a load
\* is under way, and is replaced only by the product of a load that read
\* every file.
C4_OneCompleteSnapshot ==
    /\ sources \in DOMAIN heap
    /\ \A i \in DOMAIN heap : DOMAIN heap[i] = TableNames
    /\ (rl.run.pc = "load" => sources = rl.run.before)
    /\ (rl.run.pc = "clear" =>
           /\ DOMAIN rl.run.loaded = FileNames
           /\ heap[sources] = DataSources(rl.run.loaded))
    /\ \A t \in Threads :
           LET call == thr.call[t]
           IN  call.view # <<>> =>
                   /\ call.snap \in DOMAIN heap
                   /\ \A n \in DOMAIN call.view : call.view[n] = call.snap

\* a call that finished its classification on the old object after the
\* reload had installed a different rule table
C4_Witness ==
    \E t \in Threads :
        LET call == thr.call[t]
        IN  /\ call.pc = "set"
            /\ DOMAIN call.view = TablesBeforeRules \cup TablesFromRules
            /\ \A n \in DOMAIN call.view : call.view[n] = call.snap
            /\ call.snap # sources
            /\ heap[call.snap].cclastrib # heap[sources].cclastrib

\* C28: once reload_sources has returned, a handle call that starts
\* afterwards and is answered from the cache gets a response computed from
\* the snapshot the reload installed: the response of some request with the
\* same cache key against the DataSources now in service.
C28_NoStaleAfterReload ==
    [][\A t \in Threads :
           (/\ rl.run.pc = "idle"
            /\ rl.run.result = "ok"
            /\ thr.call[t].pc = "idle"
            /\ thr'.call[t].hit)
           => \E r \in AgentRequests :
                  /\ cache_key(r) = thr'.call[t].key
                  /\ thr'.call[t].resp = Fresh(heap[sources], r)]_vars

(***************************************************************************)
(* TTLCache on its own (app/cache.py): threads call get, set and clear on  *)
(* one key while the clock advances.  A thread switch can fall between     *)
(* the statements of get and between the evaluation of the right-hand      *)
(* side of set and its assignment.  `out` is history: the last entry       *)
(* assigned to the key since the last clear, how many assignments and      *)
(* clears there have been, and whether a get has removed an entry that was *)
(* within its time-to-live.                                                *)
(***************************************************************************)
CacheThreads == {"t1", "t2"}

MaxTime == 2

MaxCacheOps == 4

TheKey == <<"k">>

CacheValues == {"v1", "v2"}

\* ttl_seconds: None, or an explicit time-to-live of no time at all
TtlInputs == {NoneNum, Num(0)}

\* entry = None
NoEntry == [value |-> "none", expires_at |-> -1]

\* ttl_seconds if ttl_seconds is not None else self.default_ttl_seconds
TTLCache_ttl(ttl_seconds) ==
    IF ttl_seconds.ok THEN ttl_seconds.v ELSE default_ttl_seconds

IdleOp ==
    [pc |-> "idle", op |-> "none", entry |-> NoEntry, result |-> "none",
     at |-> 0, seen |-> 0]

InitCache ==
    /\ cache = EmptyCache
    /\ now = 0
    /\ thr = [call |-> [t \in CacheThreads |-> IdleOp], calls |-> 0]
    /\ out = [op |-> "cache", last |-> NoEntry, writes |-> 0, removed_fresh |-> FALSE]
    /\ req = [op |-> "cache"]
    /\ sources = 0
    /\ files = <<>>
    /\ rl = <<>>
    /\ heap = <<>>

\* get: entry = self._data.get(key); if not entry: return None
GetRead(t) ==
    /\ thr.call[t].pc = "idle"
    /\ thr.calls < MaxCacheOps
    /\ LET entry == IF TheKey \in DOMAIN cache THEN cache[TheKey] ELSE NoEntry
       IN  thr' = [calls |-> thr.calls + 1,
                   call  |-> [thr.call EXCEPT ![t] =
                      [IdleOp EXCEPT !.op = "get", !.entry = entry, !.at = now,
                                     !.seen = out.writes,
                                     !.pc = IF entry = NoEntry THEN "ret" ELSE "check",
                                     !.result = IF entry = NoEntry THEN "miss"
                                                ELSE "none"]]]
    /\ UNCHANGED <<sources, req, out, files, cache, now, rl, heap>>

\* get: if entry.expires_at < time.time(): ... else return entry.value
GetCheck(t) ==
    /\ thr.call[t].pc = "check"
    /\ LET c == thr.call[t]
       IN  thr' = [thr EXCEPT !.call[t] =
                      IF c.entry.expires_at < now
                      THEN [c EXCEPT !.pc = "pop", !.at = now]
                      ELSE [c EXCEPT !.pc = "ret", !.at = now,
                                     !.result = c.entry.value]]
    /\ UNCHANGED <<sources, req, out, files, cache, now, rl, heap>>

\* get: self._data.pop(key, None); return None
GetPop(t) ==
    /\ thr.call[t].pc = "pop"
    /\ cache' = [k \in DOMAIN cache \ {TheKey} |-> cache[k]]
    /\ out' = [out EXCEPT !.removed_fresh =
                  @ \/ (TheKey \in DOMAIN cache /\ cache[TheKey].expires_at >= now)]
    /\ thr' = [thr EXCEPT !.call[t].pc = "ret", !.call[t].result = "miss"]
    /\ UNCHANGED <<sources, req, files, now, rl, heap>>

\* set: CacheEntry(value=value, expires_at=time.time() + ttl) is constructed
SetBegin(t) ==
    /\ thr.call[t].pc = "idle"
    /\ thr.calls < MaxCacheOps
    /\ \E v \in CacheValues, ttl_seconds \in TtlInputs :
           thr' = [calls |-> thr.calls + 1,
                   call  |-> [thr.call EXCEPT ![t] =
                      [IdleOp EXCEPT !.op = "set", !.pc = "store", !.at = now,
                                     !.entry = [value |-> v,
                                                expires_at |->
                                                    now + TTLCache_ttl(ttl_seconds)]]]]
    /\ UNCHANGED <<sources, req, out, files, cache, now, rl, heap>>

\* set: self._data[key] = the entry
SetStore(t) ==
    /\ thr.call[t].pc = "store"
    /\ cache' = [k \in DOMAIN cache \cup {TheKey} |->
                    IF k = TheKey THEN thr.call[t].entry ELSE cache[k]]
    /\ out' = [out EXCEPT !.last = thr.call[t].entry, !.writes = @ + 1]
    /\ thr' = [thr EXCEPT !.call[t].pc = "ret"]
    /\ UNCHANGED <<sources, req, files, now, rl, heap>>

\* clear: self._data.clear()
ClearCall(t) ==
    /\ thr.call[t].pc = "idle"
    /\ thr.calls < MaxCacheOps
    /\ cache' = cache_clear(cache)
    /\ out' = [out EXCEPT !.last = NoEntry, !.writes = @ + 1]
    /\ thr' = [calls |-> thr.calls + 1,
               call  |-> [thr.call EXCEPT ![t] = [IdleOp EXCEPT !.op = "clear",
                                                                !.pc = "ret"]]]
    /\ UNCHANGED <<sources, req, files, now, rl, heap>>

\* the call returns to its caller
CacheReturn(t) ==
    /\ thr.call[t].pc = "ret"
    /\ thr' = [thr EXCEPT !.call[t] = IdleOp]
    /\ UNCHANGED <<sources, req, out, files, cache, now, rl, heap>>

\* time.time() advances
Tick ==
    /\ now < MaxTime
    /\ now' = now + 1
    /\ UNCHANGED <<sources, req, out, files, cache, thr, rl, heap>>

NextCache ==
    \/ \E t \in CacheThreads : GetRead(t)
    \/ \E t \in CacheThreads : GetCheck(t)
    \/ \E t \in CacheThreads : GetPop(t)
    \/ \E t \in CacheThreads : SetBegin(t)
    \/ \E t \in CacheThreads : SetStore(t)
    \/ \E t \in CacheThreads : ClearCall(t)
    \/ \E t \in CacheThreads : CacheReturn(t)
    \/ Tick

SpecCache == InitCache /\ [][NextCache]_vars

\* a get that is about to return, with no set or clear since it began
QuietGet(t) ==
    /\ thr.call[t].op = "get"
    /\ thr.call[t].pc = "ret"
    /\ thr.call[t].seen = out.writes

\* what such a get owes its caller: the value of the last entry assigned
\* while the clock it read is at most the entry's expiry, a miss that leaves
\* no entry behind after that, and a miss when nothing was assigned since
\* the last clear
HonoursTtl(t) ==
    LET c == thr.call[t]
    IN  IF out.last = NoEntry THEN c.result = "miss"
        ELSE IF c.at <= out.last.expires_at THEN c.result = out.last.value
        ELSE c.result = "miss" /\ TheKey \notin DOMAIN cache

\* C25: after set(k, v, ttl) at time t and with no later set or clear, every
\* get(k) returns v while the clock is at most t + ttl and a miss after
\* that, the expired entry being removed; after clear every get misses
\* until the next set.
C25_HonoursTtl ==
    \A t \in CacheThreads : QuietGet(t) => HonoursTtl(t)

\* C26: under every interleaving of get and set on one key, a get never
\* removes an entry that is within its time-to-live, and once every call
\* has returned the key holds the entry of the last set, unless that entry
\* expired and a get removed it.
C26_NoLostEntry ==
    /\ ~out.removed_fresh
    /\ (\A t \in CacheThreads : thr.call[t].pc = "idle") =>
           (out.last # NoEntry =>
               \/ TheKey \in DOMAIN cache /\ cache[TheKey] = out.last
               \/ TheKey \notin DOMAIN cache /\ out.last.expires_at < now)

(***************************************************************************)
(* app/loader.py: the module-level tables and calcular_tributos.  The     *)
(* tables are lists of dicts; here `sources` holds them, a rate is a       *)
(* number of 1/RateScale, the fractions of the transition tables are read  *)
(* to two decimals, and a call is one step.                                *)
(***************************************************************************)
\* the least index of a set of indices, 0 when there is none
FirstIdx(S) == IF S = {} THEN 0 ELSE CHOOSE i \in S : \A j \in S : i <= j

match(valor, regra) ==
    IF regra = "*" THEN TRUE
    ELSE IF regra = "!" THEN FALSE
    ELSE valor = regra

resolver_cclastrib(tables, payload) ==
    LET emit == payload.emitente
        dest == payload.destinatario
    IN  FirstIdx({i \in DOMAIN tables.CCLASTRIB_TABLE :
            LET row == tables.CCLASTRIB_TABLE[i]
            IN  /\ match(payload.tipo_operacao, row.tipo_operacao)
                /\ match(payload.cfop, row.cfop)
                /\ match(emit.uf, row.uf_origem)
                /\ \/ row.uf_destino = "*"
                   \/ row.uf_destino = "!" /\ emit.uf # dest.uf
                   \/ emit.uf = dest.uf
                /\ match(emit.regime_fiscal, row.regime_emitente)
                /\ match(IF dest.consumidor_final THEN "S" ELSE "N", row.consumidor_final)
                /\ match(IF dest.contribuinte THEN "S" ELSE "N", row.contribuinte)})

buscar_aliquota(table, cclastrib, ano) ==
    FirstIdx({i \in DOMAIN table :
                 table[i].cclastrib = cclastrib /\ DigitsToInt(table[i].ano) = ano})

\* float(s) of a schedule's fraction, in hundredths
Hundredths(s) == ParseDecimal(s).v \div (RateScale \div 100)

\* base * (1 - reducao) * (1 + acrescimo), to RateDigits decimals
aplicar_transicao(base, trans_table, ano) ==
    LET i == FirstIdx({k \in DOMAIN trans_table : DigitsToInt(trans_table[k].ano) = ano})
    IN  IF i = 0 THEN base
        ELSE RoundHalfEven(base * (100 - Hundredths(trans_table[i].percentual_reducao))
                                * (100 + Hundredths(trans_table[i].percentual_acrescimo)),
                           10000)

aplicar_excecao_ncm(tables, ncm, ano) ==
    FirstIdx({i \in DOMAIN tables.NCM_EXCECOES :
                 /\ tables.NCM_EXCECOES[i].ncm = ncm
                 /\ DigitsToInt(tables.NCM_EXCECOES[i].ano) = ano})

\* the value calcular_tributos returns, given the rows it found
calcular_retorno(tables, cclas, i, c, e) ==
    LET exc == tables.NCM_EXCECOES
        ovr == e # 0 /\ exc[e].aliquota_override # <<>>
    IN  [cclastrib |->
             [codigo |-> IF e # 0 /\ exc[e].cclastrib_override # ""
                         THEN exc[e].cclastrib_override ELSE cclas.codigo,
              descricao |-> cclas.descricao, fundamento |-> cclas.fundamento_legal],
         ibs |-> [aliquota |-> IF ovr THEN ParseDecimal(exc[e].aliquota_override).v
                               ELSE aplicar_transicao(
                                        ParseDecimal(tables.IBS_TABLE[i].aliquota).v,
                                        tables.TRANS_IBS, DigitsToInt(tables.IBS_TABLE[i].ano)),
                  fundamento |-> IF ovr THEN exc[e].fundamento_legal
                                 ELSE tables.IBS_TABLE[i].fundamento_legal],
         cbs |-> [aliquota |-> IF ovr THEN ParseDecimal(exc[e].aliquota_override).v
                               ELSE aplicar_transicao(
                                        ParseDecimal(tables.CBS_TABLE[c].aliquota).v,
                                        tables.TRANS_CBS, DigitsToInt(tables.CBS_TABLE[c].ano)),
                  fundamento |-> IF ovr THEN exc[e].fundamento_legal
                                 ELSE tables.CBS_TABLE[c].fundamento_legal]]

\* the tables calcular_tributos leaves behind: ibs_base and cbs_base are the
\* rows of the tables themselves
calcular_tabelas(tables, i, c, e) ==
    IF e # 0 /\ tables.NCM_EXCECOES[e].aliquota_override # <<>>
    THEN [tables EXCEPT
              !.IBS_TABLE[i].fundamento_legal = tables.NCM_EXCECOES[e].fundamento_legal,
              !.CBS_TABLE[c].fundamento_legal = tables.NCM_EXCECOES[e].fundamento_legal]
    ELSE tables

calcular_tributos(tables, payload) ==
    LET ano == DigitsToInt(Take(payload.data_emissao, 4))
        k   == resolver_cclastrib(tables, payload)
    IN  IF k = 0
        THEN [result |-> [pendencia |-> "CCLASTRIB nao identificado para a operacao"],
              tables |-> tables]
        ELSE IF buscar_aliquota(tables.IBS_TABLE, tables.CCLASTRIB_TABLE[k].codigo, ano) = 0
                \/ buscar_aliquota(tables.CBS_TABLE, tables.CCLASTRIB_TABLE[k].codigo, ano) = 0
        THEN [result |-> [pendencia |-> "Aliquotas nao encontradas para o ano informado"],
              tables |-> tables]
        ELSE [result |->
                  calcular_retorno(tables, tables.CCLASTRIB_TABLE[k],
                      buscar_aliquota(tables.IBS_TABLE, tables.CCLASTRIB_TABLE[k].codigo, ano),
                      buscar_aliquota(tables.CBS_TABLE, tables.CCLASTRIB_TABLE[k].codigo, ano),
                      aplicar_excecao_ncm(tables, payload.ncm, ano)),
              tables |->
                  calcular_tabelas(tables,
                      buscar_aliquota(tables.IBS_TABLE, tables.CCLASTRIB_TABLE[k].codigo, ano),
                      buscar_aliquota(tables.CBS_TABLE, tables.CCLASTRIB_TABLE[k].codigo, ano),
                      aplicar_excecao_ncm(tables, payload.ncm, ano))]

MaxLoaderCalls == 2

iso_20270101 == <<"2", "0", "2", "7", "-", "0", "1", "-", "0", "1">>
iso_20300101 == <<"2", "0", "3", "0", "-", "0", "1", "-", "0", "1">>

AliquotaRow(cod, ano, aliquota, fundamento_legal) ==
    [cclastrib |-> cod, ano |-> ano, aliquota |-> aliquota,
     fundamento_legal |-> fundamento_legal]

\* the tables as load_csv returns them at import
LoadedTables ==
    [CCLASTRIB_TABLE |->
         <<[tipo_operacao |-> "VENDA", cfop |-> "*", uf_origem |-> "*", uf_destino |-> "!",
            regime_emitente |-> "*", consumidor_final |-> "*", contribuinte |-> "S",
            codigo |-> "010001", descricao |-> "Venda interestadual",
            fundamento_legal |-> "LC 214/2025 art. 11"],
           [tipo_operacao |-> "VENDA", cfop |-> "*", uf_origem |-> "*", uf_destino |-> "*",
            regime_emitente |-> "*", consumidor_final |-> "*", contribuinte |-> "*",
            codigo |-> "000001", descricao |-> "Venda",
            fundamento_legal |-> "LC 214/2025 art. 4"]>>,
     IBS_TABLE |->
         <<AliquotaRow("000001", txt_2026, <<"0", ".", "0", "0", "1">>, "Anexo I"),
           AliquotaRow("010001", txt_2026, <<"0", ".", "0", "0", "2">>, "Anexo II"),
           AliquotaRow("000001", txt_2027, <<"0", ".", "0", "1">>, "Anexo I")>>,
     CBS_TABLE |->
         <<AliquotaRow("000001", txt_2026, <<"0", ".", "0", "0", "9">>, "Anexo III"),
           AliquotaRow("010001", txt_2026, <<"0", ".", "0", "0", "9">>, "Anexo III"),
           AliquotaRow("000001", txt_2027, <<"0", ".", "0", "8">>, "Anexo III")>>,
     TRANS_IBS |->
         <<[ano |-> txt_2027, percentual_reducao |-> <<"0", ".", "5">>,
            percentual_acrescimo |-> <<"0">>]>>,
     TRANS_CBS |-> <<>>,
     NCM_EXCECOES |->
         <<[ncm |-> "12345678", ano |-> txt_2026, aliquota_override |-> <<"0">>,
            cclastrib_override |-> "", fundamento_legal |-> "LC 214/2025 art. 143"],
           [ncm |-> "12345679", ano |-> txt_2026, aliquota_override |-> <<>>,
            cclastrib_override |-> "020001", fundamento_legal |-> "LC 214/2025 art. 150"]>>]

Payloads ==
    {[emitente |-> [uf |-> "SP", regime_fiscal |-> "SN"],
      destinatario |-> [uf |-> uf, consumidor_final |-> FALSE, contribuinte |-> cb],
      tipo_operacao |-> tipo, cfop |-> "5101", data_emissao |-> d, ncm |-> n] :
        uf \in {"SP", "RJ"}, cb \in BOOLEAN, tipo \in {"VENDA", "DEVOLUCAO"},
        d \in {iso_20260101, iso_20270101, iso_20300101},
        n \in {"12345678", "12345679", "87654321"}}

InitLoader ==
    /\ sources = LoadedTables
    /\ req = [op |-> "none"]
    /\ out = [op |-> "none"]
    /\ thr = [calls |-> 0]
    /\ files = <<>>
    /\ cache = <<>>
    /\ now = 0
    /\ rl = <<>>
    /\ heap = <<>>

\* one call of calcular_tributos
Calcular ==
    /\ thr.calls < MaxLoaderCalls
    /\ \E payload \in Payloads :
           /\ req' = [op |-> "calcular", payload |-> payload]
           /\ out' = [op |-> "calcular",
                      result |-> calcular_tributos(sources, payload).result]
           /\ sources' = calcular_tributos(sources, payload).tables
    /\ thr' = [calls |-> thr.calls + 1]
    /\ UNCHANGED <<files, cache, now, rl, heap>>

NextLoader == Calcular

SpecLoader == InitLoader /\ [][NextLoader]_vars

\* C30: after any sequence of calls every row of IBS_TABLE and CBS_TABLE,
\* fundamento_legal included, is as it was loaded, and the result of a call
\* is the one its payload gives on the tables as loaded, whatever payloads
\* were processed before it.
C30_TablesUnchanged ==
    /\ sources.IBS_TABLE = LoadedTables.IBS_TABLE
    /\ sources.CBS_TABLE = LoadedTables.CBS_TABLE
    /\ (out.op = "calcular" =>
           out.result = calcular_tributos(LoadedTables, req.payload).result)

====
